---- MODULE Spec2Model ----
(***************************************************************************)
(* Model of the execution layer of arbitrade's python backend:             *)
(*   - TWAPEngine      (python_backend/app/services/twap_engine.py)        *)
(*   - ArbitrageEngine (python_backend/app/services/arbitrage_engine.py)   *)
(*                                                                         *)
(* Both engines run on one asyncio event loop.  A coroutine keeps the loop *)
(* from the moment it is scheduled until it reaches an await that really   *)
(* suspends, so the model hands the loop to one coroutine at a time        *)
(* (twapCur) and lets control calls and other coroutines run only          *)
(* while nobody holds it.  Order placement goes through the synchronous    *)
(* pybit HTTP client: it never releases the loop.                          *)
(*                                                                         *)
(* Quantities are integers (units of the smallest quantity step);          *)
(* timestamps and log lines are left out.                                  *)
(***************************************************************************)
EXTENDS Integers, Sequences, FiniteSets, TLC

(***************************************************************************)
(* Bounds of the model                                                     *)
(***************************************************************************)
MaxTotalQty == 2     \* largest totalQty of a created plan
MaxTasks == 3        \* most execution tasks ever created (start + resumes)
MaxUpserts == 2      \* most upsert_pair calls

\* Optional[str] order_id = None of a failed OrderResult
NoOrderId == 0

PlanIds == {"p1"}          \* ids handed out by create_plan
UnknownIds == {"zz"}       \* an id no plan was ever created under
AllIds == PlanIds \cup UnknownIds

\* sliceQty of the created plans
SliceQtys == {1, 2}

\* OrderTemplate values used as legs of plans
SpotBuy == [exchange |-> "bybit", symbol |-> "BTCUSDT", side |-> "buy", category |-> "spot"]

PerpSell == [exchange |-> "bybit", symbol |-> "ETHUSDT", side |-> "sell", category |-> "linear"]

OtherVenue == [exchange |-> "binance", symbol |-> "BTCUSDT", side |-> "sell", category |-> "spot"]

\* legs of the created plans
LegSeqs ==
  { <<SpotBuy>>, <<OtherVenue>>, <<SpotBuy, PerpSell>>, <<PerpSell, SpotBuy>>,
    <<SpotBuy, OtherVenue>>, <<PerpSell, SpotBuy, OtherVenue>> }

\* What one call of _place_spot_order / _place_perp_order can return:
\* success, a terminal venue rejection, or an authorization error
\* ("ErrCode: 10003" / "not authorized" in the error message).
Outcomes == {"ok", "fail", "auth"}

TwapState == {"pending", "running", "paused", "completed", "cancelled", "failed"}

VARIABLES
  plans,          \* TWAPEngine.plans: plan id -> TwapPlan
  progress,       \* TWAPEngine.progress: plan id -> TwapProgress
  executions,     \* TWAPEngine.executions: plan id -> list of TwapExecution
  running_tasks,  \* TWAPEngine._running_tasks: plan id -> task
  tasks,          \* the asyncio tasks created so far: task id -> its frame
  twapCur,        \* the task that holds the event loop, 0 if none does
  twapOrders,     \* the orders the exchange received from the TWAP engine, in order
  nextOrderId     \* next order id the exchange hands out

twapVars == <<plans, progress, executions, running_tasks, tasks, twapCur,
              twapOrders, nextOrderId>>

VARIABLES
  pairs,               \* ArbitrageEngine._pairs: pair id -> PairConfig
  pairOrder,           \* the keys of _pairs in the dict's (insertion) order
  arbRunning,          \* ArbitrageEngine._running
  executions_count,    \* ArbitrageEngine._executions_count
  executing_pairs,     \* ArbitrageEngine._executing_pairs
  executions_history,  \* ArbitrageEngine._executions_history
  tick,                \* the frame of the loop task: _run_loop, _tick, _execute_arbitrage
  arbCur,              \* TRUE while the loop task holds the event loop
  execOrders,          \* the _place_order calls of the execution in progress, in order
  snap,                \* pairs, counters and history as they were when it began
  retired,             \* pair ids removed for reaching max_execs, not upserted since
  upserts              \* number of upsert calls so far

arbVars == <<pairs, pairOrder, arbRunning, executions_count, executing_pairs,
             executions_history, tick, arbCur, execOrders, snap, retired, upserts>>

VARIABLES
  orderbook,   \* an OrderbookBook: depth, bids, asks, u
  books,       \* BybitOrderbookFeed._books: (category, symbol, depth) -> OrderbookBook
  lastApply,   \* the last apply_* call on orderbook: its levels, and the book before a delta
  fullBook     \* what orderbook would hold if _trim never removed a level

bookVars == <<orderbook, books, lastApply, fullBook>>

VARIABLES
  monitoring_pairs   \* routes_monitoring.monitoring_pairs: pair id -> config dict

monVars == <<monitoring_pairs>>

VARIABLES
  loops,      \* every task created for _run_loop: where it is suspended
  task_ref,   \* ArbitrageEngine._task: the index of a loop task, or NoTask
  stopping,   \* the loop tasks that a suspended stop() call awaits
  quiet       \* a stop() call returned with _running False and no start() followed

lifeVars == <<loops, task_ref, stopping, quiet>>

VARIABLES
  writer,   \* the stream's thread inside apply_snapshot: the statement it is at
  reader,   \* a thread inside best_bid_ask: the side it reads next
  seen      \* what the last get_top_of_book returned, with the books around it

raceVars == <<writer, reader, seen>>

VARIABLES
  placement \* one call of _place_perp_order or _place_spot_order and its retries
placeVars == <<placement>>

vars == <<twapVars, arbVars, bookVars, monVars, lifeVars, raceVars, placeVars>>

(***************************************************************************)
(* Helpers on dicts (functions with a varying domain)                      *)
(***************************************************************************)
DictSet(d, k, v) == [x \in DOMAIN d \cup {k} |-> IF x = k THEN v ELSE d[x]]

DictDel(d, k) == [x \in DOMAIN d \ {k} |-> d[x]]

(***************************************************************************)
(* TWAPEngine                                                              *)
(***************************************************************************)
\* int(plan.totalQty / plan.sliceQty)
SlicesTotal(plan) == plan.totalQty \div plan.sliceQty

\* side="Buy" if leg.side == "buy" else "Sell"
OrderSide(leg) == IF leg.side = "buy" THEN "Buy" ELSE "Sell"

\* a rollback that repeats the side of the original order
ReverseSide_Same(original_side) == IF original_side = "buy" THEN "Buy" ELSE "Sell"

\* reverse_side = "Sell" if original_side == "buy" else "Buy"
ReverseSide(original_side) == IF original_side = "buy" THEN "Sell" ELSE "Buy"

\* a termination that ends every failed plan as CANCELLED
FailureState_AlwaysCancelled(err) == "cancelled"

\* FAILED for an authorization error, CANCELLED for any other error
FailureState(err) == IF err = "auth" THEN "failed" ELSE "cancelled"

\* The request the exchange sees, with what it answered.
Order(pid, leg, side, qty, rollback, outcome, oid) ==
  [plan |-> pid, symbol |-> leg.symbol, category |-> leg.category, side |-> side,
   qty |-> qty, rollback |-> rollback, ok |-> (outcome = "ok"), id |-> oid]

\* TwapExecution(...)
Execution(pid, slice_index, leg_index, oid, outcome, qty, is_rollback, original) ==
  [planId |-> pid, sliceIndex |-> slice_index, legIndex |-> leg_index,
   orderId |-> oid, success |-> (outcome = "ok"), qty |-> qty,
   error |-> IF outcome = "ok" THEN "none" ELSE outcome,
   is_rollback |-> is_rollback, original_order_id |-> original]

\* The locals plan and progress of a task are references: they are the
\* entries of self.plans and self.progress until a call removes or replaces
\* those entries; from then on the task holds the objects it had (held).
NoHeld ==
  [plan |-> [planId |-> "none", totalQty |-> 0, sliceQty |-> 0, legs |-> <<>>],
   state |-> "none"]

NewTask(pid) ==
  [plan |-> pid, pc |-> "new", cancelled |-> FALSE, slice_index |-> 0,
   leg_index |-> 0, successful_legs |-> <<>>, slice_failed |-> FALSE,
   err |-> "none", rb_index |-> 0, held |-> NoHeld]

\* A task that ended: its frame is gone
EndedTask(pid) == [NewTask(pid) EXCEPT !.pc = "done"]

\* task.cancel(): a task that already ended ignores it
CancelTask(ts, t) ==
  IF ts[t].pc = "done" THEN ts ELSE [ts EXCEPT ![t].cancelled = TRUE]

TwapInit ==
  /\ plans = <<>>
  /\ progress = <<>>
  /\ executions = <<>>
  /\ running_tasks = <<>>
  /\ tasks = <<>>
  /\ twapCur = 0
  /\ twapOrders = <<>>
  /\ nextOrderId = 1

\* create_plan (the route builds the TwapPlan under a fresh uuid)
TwapCreatePlan(pid, totalQty, sliceQty, legs) ==
  /\ twapCur = 0
  /\ pid \notin DOMAIN plans
  /\ plans' = DictSet(plans, pid, [planId |-> pid, totalQty |-> totalQty,
                                   sliceQty |-> sliceQty, legs |-> legs])
  /\ progress' = DictSet(progress, pid,
                   [executed |-> 0, remaining |-> totalQty, slicesDone |-> 0,
                    slicesTotal |-> totalQty \div sliceQty, state |-> "pending"])
  /\ executions' = DictSet(executions, pid, <<>>)
  /\ UNCHANGED <<running_tasks, tasks, twapCur, twapOrders, nextOrderId>>

\* asyncio.create_task(self._execute_twap(plan_id)); self._running_tasks[plan_id] = task
SpawnTask(pid) ==
  LET t == Len(tasks) + 1 IN
  /\ tasks' = Append(tasks, NewTask(pid))
  /\ running_tasks' = DictSet(running_tasks, pid, t)

\* What start_plan returns
StartPlanResult(pid) == pid \in DOMAIN plans /\ progress[pid].state = "pending"

\* start_plan
TwapStartPlan(pid) ==
  /\ twapCur = 0
  /\ IF ~StartPlanResult(pid)
       THEN UNCHANGED <<progress, tasks, running_tasks>>
       ELSE /\ Len(tasks) < MaxTasks
            /\ SpawnTask(pid)
            /\ progress' = [progress EXCEPT ![pid].state = "running"]
  /\ UNCHANGED <<plans, executions, twapCur, twapOrders, nextOrderId>>

\* What pause_plan returns
PausePlanResult(pid) ==
  pid \in DOMAIN progress /\ progress[pid].state \in {"running", "paused"}

\* a pause that cancels the task but leaves the state as it was
TwapPausePlan_OnlyCancels(pid) ==
  /\ twapCur = 0
  /\ IF ~PausePlanResult(pid)
       THEN UNCHANGED <<tasks, running_tasks>>
       ELSE IF pid \in DOMAIN running_tasks
              THEN /\ tasks' = CancelTask(tasks, running_tasks[pid])
                   /\ running_tasks' = DictDel(running_tasks, pid)
              ELSE UNCHANGED <<tasks, running_tasks>>
  /\ UNCHANGED <<plans, progress, executions, twapCur, twapOrders, nextOrderId>>

\* pause_plan
TwapPausePlan(pid) ==
  /\ twapCur = 0
  /\ IF ~PausePlanResult(pid)
       THEN UNCHANGED <<progress, tasks, running_tasks>>
       ELSE /\ progress' = [progress EXCEPT ![pid].state = "paused"]
            /\ IF pid \in DOMAIN running_tasks
                 THEN /\ tasks' = CancelTask(tasks, running_tasks[pid])
                      /\ running_tasks' = DictDel(running_tasks, pid)
                 ELSE UNCHANGED <<tasks, running_tasks>>
  /\ UNCHANGED <<plans, executions, twapCur, twapOrders, nextOrderId>>

\* What resume_plan returns
ResumePlanResult(pid) == pid \in DOMAIN progress /\ progress[pid].state = "paused"

\* resume_plan
TwapResumePlan(pid) ==
  /\ twapCur = 0
  /\ IF ~ResumePlanResult(pid)
       THEN UNCHANGED <<progress, tasks, running_tasks>>
       ELSE /\ Len(tasks) < MaxTasks
            /\ SpawnTask(pid)
            /\ progress' = [progress EXCEPT ![pid].state = "running"]
  /\ UNCHANGED <<plans, executions, twapCur, twapOrders, nextOrderId>>

\* What cancel_plan returns
CancelPlanResult(pid) == pid \in DOMAIN progress

\* cancel_plan
TwapCancelPlan(pid) ==
  /\ twapCur = 0
  /\ IF ~CancelPlanResult(pid)
       THEN UNCHANGED <<progress, tasks, running_tasks>>
       ELSE /\ progress' = [progress EXCEPT ![pid].state = "cancelled"]
            /\ IF pid \in DOMAIN running_tasks
                 THEN /\ tasks' = CancelTask(tasks, running_tasks[pid])
                      /\ running_tasks' = DictDel(running_tasks, pid)
                 ELSE UNCHANGED <<tasks, running_tasks>>
  /\ UNCHANGED <<plans, executions, twapCur, twapOrders, nextOrderId>>

(***************************************************************************)
(* _execute_twap: one asyncio task per start/resume.  pc is the place the  *)
(* task is at; it holds the loop (twapCur) from TaskStart/TaskWake until   *)
(* it sleeps or ends.                                                      *)
(***************************************************************************)
Running(t) == twapCur = t /\ t \in DOMAIN tasks

\* The task is scheduled for the first time: plan/progress lookup, total_slices,
\* slice_index = 0.
TaskStart(t) ==
  /\ twapCur = 0
  /\ t \in DOMAIN tasks
  /\ tasks[t].pc = "new"
  /\ ~tasks[t].cancelled
  /\ twapCur' = t
  /\ tasks' = [tasks EXCEPT ![t].pc = "slice_top", ![t].slice_index = 0]
  /\ UNCHANGED <<plans, progress, executions, running_tasks, twapOrders,
                 nextOrderId>>

\* Head of  for slice_index in range(total_slices):  with the state check.
TaskSliceTop(t) ==
  /\ Running(t)
  /\ tasks[t].pc = "slice_top"
  /\ LET pid == tasks[t].plan IN
     IF tasks[t].slice_index >= SlicesTotal(plans[pid])
        \/ progress[pid].state # "running"
       THEN tasks' = [tasks EXCEPT ![t].pc = "after_loop"]
       ELSE tasks' = [tasks EXCEPT ![t].pc = "leg_top", ![t].leg_index = 0,
                                   ![t].successful_legs = <<>>,
                                   ![t].slice_failed = FALSE]
  /\ UNCHANGED <<plans, progress, executions, running_tasks, twapCur,
                 twapOrders, nextOrderId>>

\* One iteration of  for leg_index, leg in enumerate(plan.legs):  the order
\* is placed, the execution is recorded, progress advances on success.
TaskLeg(t, outcome) ==
  /\ Running(t)
  /\ tasks[t].pc = "leg_top"
  /\ LET pid == tasks[t].plan
         plan == plans[pid]
         li == tasks[t].leg_index       \* 0-based, as in the code
     IN
     IF li >= Len(plan.legs) \/ progress[pid].state # "running"
       THEN /\ outcome = "ok"
            /\ tasks' = [tasks EXCEPT ![t].pc = "after_legs"]
            /\ UNCHANGED <<progress, executions, twapOrders, nextOrderId>>
       ELSE
         LET leg == plan.legs[li + 1]
             placed == leg.exchange = "bybit"
             \* any other exchange: OrderResult(success=False, "Unsupported exchange")
             res == IF placed THEN outcome ELSE "fail"
             oid == IF res = "ok" THEN nextOrderId ELSE NoOrderId
         IN
         /\ placed \/ outcome = "fail"
         /\ twapOrders' = IF placed
                            THEN Append(twapOrders,
                                   Order(pid, leg, OrderSide(leg), plan.sliceQty,
                                         FALSE, res, oid))
                            ELSE twapOrders
         /\ nextOrderId' = IF res = "ok" THEN nextOrderId + 1 ELSE nextOrderId
         /\ executions' = [executions EXCEPT ![pid] =
                             Append(@, Execution(pid, tasks[t].slice_index, li, oid,
                                                 res, plan.sliceQty, FALSE, NoOrderId))]
         /\ IF res = "ok"
              THEN /\ tasks' = [tasks EXCEPT
                          ![t].successful_legs =
                              Append(@, [leg_index |-> li, leg |-> leg,
                                         order_id |-> oid, side |-> leg.side]),
                          ![t].leg_index = li + 1]
                   /\ progress' = [progress EXCEPT
                          ![pid].executed = @ + plan.sliceQty,
                          ![pid].remaining = @ - plan.sliceQty]
              ELSE /\ tasks' = [tasks EXCEPT
                          ![t].err = res,
                          ![t].rb_index = 0,
                          ![t].pc = IF tasks[t].successful_legs # <<>>
                                      THEN "rollback" ELSE "terminate"]
                   /\ UNCHANGED progress
  /\ UNCHANGED <<plans, running_tasks, twapCur>>

\* a rollback that places the inverse order and records nothing
RollbackLeg_NoRecord(pid, slice_index, leg_info, outcome) ==
  LET plan == plans[pid]
      leg == leg_info.leg
      placed == leg.exchange = "bybit"
      res == IF placed THEN outcome ELSE "fail"
      oid == IF res = "ok" THEN nextOrderId ELSE NoOrderId
  IN
  /\ placed \/ outcome = "fail"
  /\ twapOrders' = IF placed
                     THEN Append(twapOrders,
                            Order(pid, leg, ReverseSide(leg_info.side), plan.sliceQty,
                                  TRUE, res, oid))
                     ELSE twapOrders
  /\ nextOrderId' = IF res = "ok" THEN nextOrderId + 1 ELSE nextOrderId
  /\ UNCHANGED executions

\* One iteration of the loop of _rollback_successful_legs: the inverse order
\* for one succeeded leg and its rollback record.
RollbackLeg(pid, slice_index, leg_info, outcome) ==
  LET plan == plans[pid]
      leg == leg_info.leg
      placed == leg.exchange = "bybit"
      res == IF placed THEN outcome ELSE "fail"
      oid == IF res = "ok" THEN nextOrderId ELSE NoOrderId
  IN
  /\ placed \/ outcome = "fail"
  /\ twapOrders' = IF placed
                     THEN Append(twapOrders,
                            Order(pid, leg, ReverseSide(leg_info.side), plan.sliceQty,
                                  TRUE, res, oid))
                     ELSE twapOrders
  /\ nextOrderId' = IF res = "ok" THEN nextOrderId + 1 ELSE nextOrderId
  /\ executions' = [executions EXCEPT ![pid] =
                      Append(@, Execution(pid, slice_index, leg_info.leg_index, oid,
                                          res, plan.sliceQty, TRUE, leg_info.order_id))]

\* await self._rollback_successful_legs(plan_id, slice_index, successful_legs)
TaskRollback(t, outcome) ==
  /\ Running(t)
  /\ tasks[t].pc = "rollback"
  /\ IF tasks[t].rb_index >= Len(tasks[t].successful_legs)
       THEN /\ outcome = "ok"
            /\ tasks' = [tasks EXCEPT ![t].pc = "terminate"]
            /\ UNCHANGED <<executions, twapOrders, nextOrderId>>
       ELSE /\ RollbackLeg(tasks[t].plan, tasks[t].slice_index,
                           tasks[t].successful_legs[tasks[t].rb_index + 1], outcome)
            /\ tasks' = [tasks EXCEPT ![t].rb_index = @ + 1]
  /\ UNCHANGED <<plans, progress, running_tasks, twapCur>>

\* The failed leg ends the plan: FAILED or CANCELLED, slice_failed = True, break.
TaskTerminate(t) ==
  /\ Running(t)
  /\ tasks[t].pc = "terminate"
  /\ progress' = [progress EXCEPT ![tasks[t].plan].state = FailureState(tasks[t].err)]
  /\ tasks' = [tasks EXCEPT ![t].slice_failed = TRUE, ![t].pc = "after_legs"]
  /\ UNCHANGED <<plans, executions, running_tasks, twapCur, twapOrders,
                 nextOrderId>>

\* a slice loop that leaves on failure before it counts the slice
TaskAfterLegs_SkipsFailed(t) ==
  /\ Running(t)
  /\ tasks[t].pc = "after_legs"
  /\ LET pid == tasks[t].plan
         si == tasks[t].slice_index
     IN
     IF tasks[t].slice_failed
       THEN /\ tasks' = [tasks EXCEPT ![t].pc = "after_loop"]
            /\ UNCHANGED <<progress, twapCur>>
       ELSE /\ progress' = [progress EXCEPT ![pid].slicesDone = si + 1]
            /\ IF si < SlicesTotal(plans[pid]) - 1
                 THEN /\ tasks' = [tasks EXCEPT ![t].pc = "sleeping"]
                      /\ twapCur' = 0
                 ELSE /\ tasks' = [tasks EXCEPT ![t].pc = "slice_top",
                                               ![t].slice_index = si + 1]
                      /\ UNCHANGED twapCur
  /\ UNCHANGED <<plans, executions, running_tasks, twapOrders, nextOrderId>>

\* After the legs: slicesDone = slice_index + 1; break on failure; sleep unless
\* this was the last slice.
TaskAfterLegs(t) ==
  /\ Running(t)
  /\ tasks[t].pc = "after_legs"
  /\ LET pid == tasks[t].plan
         si == tasks[t].slice_index
     IN
     /\ progress' = [progress EXCEPT ![pid].slicesDone = si + 1]
     /\ IF tasks[t].slice_failed
          THEN /\ tasks' = [tasks EXCEPT ![t].pc = "after_loop"]
               /\ UNCHANGED twapCur
          ELSE IF si < SlicesTotal(plans[pid]) - 1
                 THEN /\ tasks' = [tasks EXCEPT ![t].pc = "sleeping"]
                      /\ twapCur' = 0
                 ELSE /\ tasks' = [tasks EXCEPT ![t].pc = "slice_top",
                                               ![t].slice_index = si + 1]
                      /\ UNCHANGED twapCur
  /\ UNCHANGED <<plans, executions, running_tasks, twapOrders, nextOrderId>>

\* asyncio.sleep(intervalMs / 1000) returns: next iteration of the slice loop.
TaskWake(t) ==
  /\ twapCur = 0
  /\ t \in DOMAIN tasks
  /\ tasks[t].pc = "sleeping"
  /\ ~tasks[t].cancelled
  /\ twapCur' = t
  /\ tasks' = [tasks EXCEPT ![t].pc = "slice_top", ![t].slice_index = @ + 1]
  /\ UNCHANGED <<plans, progress, executions, running_tasks, twapOrders,
                 nextOrderId>>

\* an end of task without the finally block
TaskAfterLoop_KeepsRegistration(t) ==
  /\ Running(t)
  /\ tasks[t].pc = "after_loop"
  /\ LET pid == tasks[t].plan IN
     progress' = IF progress[pid].state = "running"
                   THEN [progress EXCEPT ![pid].state = "completed"]
                   ELSE progress
  /\ tasks' = [tasks EXCEPT ![t] = EndedTask(tasks[t].plan)]
  /\ twapCur' = 0
  /\ UNCHANGED <<plans, executions, running_tasks, twapOrders, nextOrderId>>

\* After the loop: COMPLETED if still RUNNING; finally: drop the registration
\* found under the plan id.
TaskAfterLoop(t) ==
  /\ Running(t)
  /\ tasks[t].pc = "after_loop"
  /\ LET pid == tasks[t].plan IN
     /\ progress' = IF progress[pid].state = "running"
                      THEN [progress EXCEPT ![pid].state = "completed"]
                      ELSE progress
     /\ running_tasks' = DictDel(running_tasks, pid)
  /\ tasks' = [tasks EXCEPT ![t] = EndedTask(tasks[t].plan)]
  /\ twapCur' = 0
  /\ UNCHANGED <<plans, executions, twapOrders, nextOrderId>>

\* The cancellation requested by task.cancel() reaches the task.  A task that
\* never ran ends without entering its try block; a sleeping task gets
\* CancelledError at the sleep: except CancelledError, then the finally block.
TaskCancelled(t) ==
  /\ twapCur = 0
  /\ t \in DOMAIN tasks
  /\ tasks[t].cancelled
  /\ tasks[t].pc \in {"new", "sleeping"}
  /\ running_tasks' = IF tasks[t].pc = "sleeping"
                        THEN DictDel(running_tasks, tasks[t].plan)
                        ELSE running_tasks
  /\ tasks' = [tasks EXCEPT ![t] = EndedTask(tasks[t].plan)]
  /\ UNCHANGED <<plans, progress, executions, twapCur, twapOrders, nextOrderId>>

TwapControl ==
  \E pid \in AllIds :
    \/ TwapStartPlan(pid)
    \/ TwapPausePlan(pid)
    \/ TwapResumePlan(pid)
    \/ TwapCancelPlan(pid)

TwapCreate ==
  \E pid \in PlanIds, totalQty \in 1..MaxTotalQty, sliceQty \in SliceQtys,
     legs \in LegSeqs :
    TwapCreatePlan(pid, totalQty, sliceQty, legs)

\* Every step task t can take
TaskRun(t) ==
  \/ TaskStart(t)
  \/ TaskSliceTop(t)
  \/ \E outcome \in Outcomes : TaskLeg(t, outcome)
  \/ \E outcome \in {"ok", "fail"} : TaskRollback(t, outcome)
  \/ TaskTerminate(t)
  \/ TaskAfterLegs(t)
  \/ TaskWake(t)
  \/ TaskAfterLoop(t)
  \/ TaskCancelled(t)

TwapTask == \E t \in 1..MaxTasks : TaskRun(t)

NextTwap == (TwapCreate \/ TwapControl \/ TwapTask) /\ UNCHANGED <<arbVars, bookVars, monVars, lifeVars, raceVars, placeVars>>

(***************************************************************************)
(* ArbitrageEngine                                                         *)
(*                                                                         *)
(* One loop task runs _run_loop.  It gives up the event loop only in the   *)
(* sleep between two ticks and in the two awaits of _fetch_orderbook;      *)
(* _execute_arbitrage, _place_order and _rollback_order never suspend.     *)
(* Prices are integers and the threshold is an integer number of percent;  *)
(* the comparison of the spread is made in exact arithmetic.               *)
(***************************************************************************)
PairIds == {"A", "B"}

\* Leg values used in pair configurations
BuySpot == [exchange |-> "bybit", symbol |-> "BTCUSDT", type |-> "spot", side |-> "buy"]

SellPerp == [exchange |-> "bybit", symbol |-> "BTCUSDT", type |-> "linear", side |-> "sell"]

BuyElsewhere == [exchange |-> "binance", symbol |-> "ETHUSDT", type |-> "spot", side |-> "buy"]

\* PairConfig(leg1, leg2, threshold, qty, totalAmount, enabled, max_execs);
\* totalAmount is never read by the engine and is left out
PairConfig(leg1, leg2, threshold, qty, enabled, max_execs) ==
  [leg1 |-> leg1, leg2 |-> leg2, threshold |-> threshold, qty |-> qty,
   enabled |-> enabled, max_execs |-> max_execs]

\* the configurations upserted
PairConfigs ==
  { PairConfig(BuySpot, SellPerp, 1, 1, TRUE, 1),
    PairConfig(BuySpot, SellPerp, 0, 2, TRUE, 2),
    PairConfig(SellPerp, BuySpot, 1, 1, TRUE, 1),
    PairConfig(BuyElsewhere, SellPerp, -1, 2, TRUE, 2),
    PairConfig(BuySpot, SellPerp, 0, 1, FALSE, 1) }

\* (bid, ask) of the top of a book; 0 where that side has no price
Books == { <<0, 0>>, <<99, 100>>, <<101, 102>> }

\* What one call of _place_order can return
ArbOutcomes == {"ok", "fail"}

NoCfg == PairConfig(BuySpot, BuySpot, 0, 0, FALSE, 0)

\* OrderResult(success, price, order_id, error_message)
OrderResult(success, order_id) == [success |-> success, order_id |-> order_id]

NoResult == OrderResult(FALSE, NoOrderId)

\* The locals of _tick while no pair is being processed
IdleTick(pc) ==
  [pc |-> pc, todo |-> <<>>, pair_id |-> "none", cfg |-> NoCfg,
   leg1_bid |-> 0, leg1_ask |-> 0, leg2_bid |-> 0, leg2_ask |-> 0,
   leg1_result |-> NoResult, leg2_result |-> NoResult,
   started |-> FALSE, fired |-> <<>>]

NoSnap == [pairs |-> <<>>, count |-> <<>>, history |-> <<>>]

ArbInit ==
  /\ pairs = <<>>
  /\ pairOrder = <<>>
  /\ arbRunning = FALSE
  /\ executions_count = <<>>
  /\ executing_pairs = {}
  /\ executions_history = <<>>
  /\ tick = IdleTick("off")
  /\ arbCur = FALSE
  /\ execOrders = <<>>
  /\ snap = NoSnap
  /\ retired = {}
  /\ upserts = 0

\* self._executions_count.get(pair_id, 0)
CountOf(count, pair_id) == IF pair_id \in DOMAIN count THEN count[pair_id] ELSE 0

\* self._executions_history.setdefault(pair_id, [])
HistoryOf(history, pair_id) ==
  IF pair_id \in DOMAIN history THEN history[pair_id] ELSE <<>>

\* category="linear" if leg.type in ("linear", "future", "futures") else "spot"
ArbCategory(leg) ==
  IF leg.type \in {"linear", "future", "futures"} THEN "linear" ELSE "spot"

\* leg_exec = ask if leg.side == "buy" else bid
ExecPrice(leg, bid, ask) == IF leg.side = "buy" THEN ask ELSE bid

\* a trigger that needs the spread to exceed the threshold
ShouldTrigger_Strict(leg1_exec, leg2_exec, threshold) ==
  (leg2_exec - leg1_exec) * 100 > threshold * leg1_exec

\* spread_pct >= cfg.threshold, spread_pct = (leg2_exec - leg1_exec) / leg1_exec * 100
ShouldTrigger(leg1_exec, leg2_exec, threshold) ==
  (leg2_exec - leg1_exec) * 100 >= threshold * leg1_exec

\* a quota that is only reached one execution too late
ReachedMax_Late(count, config) == count > config.max_execs

\* self._executions_count[pair_id] >= getattr(config, "max_execs", 1)
ReachedMax(count, config) == count >= config.max_execs

\* a rollback leg that keeps the side of the original leg
ReverseLeg_SameSide(leg) ==
  [exchange |-> leg.exchange, symbol |-> leg.symbol, type |-> leg.type,
   side |-> leg.side]

\* reverse_leg of _rollback_order
ReverseLeg(leg) ==
  [exchange |-> leg.exchange, symbol |-> leg.symbol, type |-> leg.type,
   side |-> IF leg.side = "buy" THEN "sell" ELSE "buy"]

\* One call of _place_order(leg, qty): the request and the answer
ArbOrder(leg, qty, outcome, oid) ==
  [leg |-> leg, category |-> ArbCategory(leg),
   side |-> IF leg.side = "buy" THEN "Buy" ELSE "Sell",
   qty |-> qty, ok |-> (outcome = "ok"), id |-> oid]

\* the record appended to the history of a pair
HistoryRecord(pair_id, config, leg1_result, leg2_result) ==
  [pairId |-> pair_id, qty |-> config.qty,
   leg1 |-> [exchange |-> config.leg1.exchange, symbol |-> config.leg1.symbol,
             type |-> config.leg1.type, side |-> config.leg1.side,
             orderId |-> leg1_result.order_id],
   leg2 |-> [exchange |-> config.leg2.exchange, symbol |-> config.leg2.symbol,
             type |-> config.leg2.type, side |-> config.leg2.side,
             orderId |-> leg2_result.order_id]]

RemoveKey(order, pair_id) == SelectSeq(order, LAMBDA k : k # pair_id)

\* start(): _load_monitoring_pairs adds no pair (PairConfig is called without
\* its required totalAmount, and the TypeError is caught per pair)
EngineStart ==
  /\ arbRunning' = TRUE
  /\ tick' = IF arbRunning THEN tick ELSE IdleTick("sleep")

\* POST /arbitrage/engine/control, action start
ArbStart ==
  /\ ~arbCur
  /\ EngineStart
  /\ UNCHANGED <<pairs, pairOrder, executions_count, executing_pairs,
                 executions_history, arbCur, execOrders, snap, retired, upserts>>

\* POST /arbitrage/engine/control, action stop: the loop task is suspended
\* when stop() runs, so the cancellation ends it where it waits
ArbStop ==
  /\ ~arbCur
  /\ arbRunning' = FALSE
  /\ tick' = IdleTick("off")
  /\ UNCHANGED <<pairs, pairOrder, executions_count, executing_pairs,
                 executions_history, arbCur, execOrders, snap, retired, upserts>>

\* POST /arbitrage/pairs: upsert_pair, then start() if the engine is not running
ArbUpsertPair(pair_id, config) ==
  /\ ~arbCur
  /\ upserts < MaxUpserts
  /\ upserts' = upserts + 1
  /\ pairs' = DictSet(pairs, pair_id, config)
  /\ pairOrder' = IF pair_id \in DOMAIN pairs THEN pairOrder
                  ELSE Append(pairOrder, pair_id)
  /\ executions_count' = DictSet(executions_count, pair_id, 0)
  /\ retired' = retired \ {pair_id}
  /\ EngineStart
  /\ UNCHANGED <<executing_pairs, executions_history, arbCur, execOrders, snap>>

\* remove_pair
RemovePair(pair_id) ==
  /\ pairs' = DictDel(pairs, pair_id)
  /\ pairOrder' = RemoveKey(pairOrder, pair_id)
  /\ executions_count' = DictDel(executions_count, pair_id)
  /\ executing_pairs' = executing_pairs \ {pair_id}

\* DELETE /arbitrage/pairs/{pair_id}
ArbRemovePair(pair_id) ==
  /\ ~arbCur
  /\ RemovePair(pair_id)
  /\ UNCHANGED <<arbRunning, executions_history, tick, arbCur, execOrders,
                 snap, retired, upserts>>

\* clear_all_data
ArbClearAllData ==
  /\ ~arbCur
  /\ pairs' = <<>>
  /\ pairOrder' = <<>>
  /\ executions_count' = <<>>
  /\ executing_pairs' = {}
  /\ executions_history' = <<>>
  /\ UNCHANGED <<arbRunning, tick, arbCur, execOrders, snap, retired, upserts>>

\* what every step of the loop task leaves alone
TickFrame == UNCHANGED <<arbRunning, upserts>>

\* _run_loop wakes up and calls _tick: list(self._pairs.items())
TickBegin ==
  /\ ~arbCur
  /\ arbRunning
  /\ tick.pc = "sleep"
  /\ IF pairOrder = <<>>
       THEN UNCHANGED <<tick, arbCur>>
       ELSE /\ tick' = [IdleTick("next") EXCEPT
                          !.todo = [i \in 1..Len(pairOrder) |->
                                      [id |-> pairOrder[i], cfg |-> pairs[pairOrder[i]]]]]
            /\ arbCur' = TRUE
  /\ TickFrame
  /\ UNCHANGED <<pairs, pairOrder, executions_count, executing_pairs,
                 executions_history, execOrders, snap, retired>>

\* a for loop that visits the same pair again and again
TickNext_NoAdvance ==
  /\ arbCur
  /\ tick.pc = "next"
  /\ tick.todo # <<>>
  /\ tick' = [IdleTick(IF Head(tick.todo).cfg.enabled THEN "read" ELSE "next")
                 EXCEPT !.todo = tick.todo,
                        !.pair_id = Head(tick.todo).id,
                        !.cfg = Head(tick.todo).cfg,
                        !.fired = tick.fired]
  /\ UNCHANGED arbCur
  /\ TickFrame
  /\ UNCHANGED <<pairs, pairOrder, executions_count, executing_pairs,
                 executions_history, execOrders, snap, retired>>

\* the head of the for loop: the next pair, skipped if it is not enabled;
\* after the last pair _tick returns and _run_loop sleeps
TickNext ==
  /\ arbCur
  /\ tick.pc = "next"
  /\ IF tick.todo = <<>>
       THEN /\ tick' = IdleTick("sleep")
            /\ arbCur' = FALSE
       ELSE /\ tick' = [IdleTick(IF Head(tick.todo).cfg.enabled THEN "read" ELSE "next")
                          EXCEPT !.todo = Tail(tick.todo),
                                 !.pair_id = Head(tick.todo).id,
                                 !.cfg = Head(tick.todo).cfg,
                                 !.fired = tick.fired]
            /\ UNCHANGED arbCur
  /\ TickFrame
  /\ UNCHANGED <<pairs, pairOrder, executions_count, executing_pairs,
                 executions_history, execOrders, snap, retired>>

\* get_top_of_book of the feed gives whatever the feed holds at that moment
FeedBooks(leg) == IF leg.exchange = "bybit" THEN Books ELSE { <<0, 0>> }

NoPrice(bid, ask) == bid = 0 /\ ask = 0

\* top of book of both legs from the feed; a leg without any price falls
\* back to _fetch_orderbook, which suspends the task
TickReadBooks(book1, book2) ==
  /\ arbCur
  /\ tick.pc = "read"
  /\ book1 \in FeedBooks(tick.cfg.leg1)
  /\ book2 \in FeedBooks(tick.cfg.leg2)
  /\ LET pc == IF NoPrice(book1[1], book1[2]) THEN "fetch1"
               ELSE IF NoPrice(book2[1], book2[2]) THEN "fetch2"
               ELSE "eval"
     IN /\ tick' = [tick EXCEPT !.leg1_bid = book1[1], !.leg1_ask = book1[2],
                                !.leg2_bid = book2[1], !.leg2_ask = book2[2],
                                !.pc = pc]
        /\ arbCur' = (pc = "eval")
  /\ TickFrame
  /\ UNCHANGED <<pairs, pairOrder, executions_count, executing_pairs,
                 executions_history, execOrders, snap, retired>>

\* await _fetch_orderbook(cfg.leg1...) returns a book
TickFetch1Return(book) ==
  /\ ~arbCur
  /\ tick.pc = "fetch1"
  /\ LET pc == IF NoPrice(tick.leg2_bid, tick.leg2_ask) THEN "fetch2" ELSE "eval"
     IN /\ tick' = [tick EXCEPT !.leg1_bid = book[1], !.leg1_ask = book[2], !.pc = pc]
        /\ arbCur' = (pc = "eval")
  /\ TickFrame
  /\ UNCHANGED <<pairs, pairOrder, executions_count, executing_pairs,
                 executions_history, execOrders, snap, retired>>

\* await _fetch_orderbook(cfg.leg2...) returns a book
TickFetch2Return(book) ==
  /\ ~arbCur
  /\ tick.pc = "fetch2"
  /\ tick' = [tick EXCEPT !.leg2_bid = book[1], !.leg2_ask = book[2], !.pc = "eval"]
  /\ arbCur' = TRUE
  /\ TickFrame
  /\ UNCHANGED <<pairs, pairOrder, executions_count, executing_pairs,
                 executions_history, execOrders, snap, retired>>

\* an error in one pair that ends the whole tick: the pairs left are dropped
TickFetchRaise_EndsTick ==
  /\ ~arbCur
  /\ tick.pc \in {"fetch1", "fetch2"}
  /\ tick' = [tick EXCEPT !.pc = "next", !.todo = <<>>]
  /\ arbCur' = TRUE
  /\ TickFrame
  /\ UNCHANGED <<pairs, pairOrder, executions_count, executing_pairs,
                 executions_history, execOrders, snap, retired>>

\* _fetch_orderbook raises: except Exception logs it and the loop goes on
\* with the next pair
TickFetchRaise ==
  /\ ~arbCur
  /\ tick.pc \in {"fetch1", "fetch2"}
  /\ tick' = [tick EXCEPT !.pc = "next"]
  /\ arbCur' = TRUE
  /\ TickFrame
  /\ UNCHANGED <<pairs, pairOrder, executions_count, executing_pairs,
                 executions_history, execOrders, snap, retired>>

\* execution prices, spread and the trigger decision
TickEval ==
  /\ arbCur
  /\ tick.pc = "eval"
  /\ LET leg1_exec == ExecPrice(tick.cfg.leg1, tick.leg1_bid, tick.leg1_ask)
         leg2_exec == ExecPrice(tick.cfg.leg2, tick.leg2_bid, tick.leg2_ask)
     IN IF leg1_exec <= 0 \/ leg2_exec <= 0
          THEN tick' = [tick EXCEPT !.pc = "next"]
          ELSE LET should_trigger ==
                     /\ ShouldTrigger(leg1_exec, leg2_exec, tick.cfg.threshold)
                     /\ ~ReachedMax(CountOf(executions_count, tick.pair_id), tick.cfg)
                     /\ tick.pair_id \notin executing_pairs
               IN tick' = [tick EXCEPT
                             !.pc = IF should_trigger THEN "exec_start" ELSE "next"]
  /\ TickFrame
  /\ UNCHANGED <<pairs, pairOrder, executions_count, executing_pairs,
                 executions_history, arbCur, execOrders, snap, retired>>

\* _execute_arbitrage is entered: the pair is marked in-flight (the prices
\* are only logged from here on)
ExecStart ==
  /\ arbCur
  /\ tick.pc = "exec_start"
  /\ executing_pairs' = executing_pairs \cup {tick.pair_id}
  /\ tick' = [tick EXCEPT !.pc = "leg1", !.started = TRUE,
                          !.leg1_bid = 0, !.leg1_ask = 0,
                          !.leg2_bid = 0, !.leg2_ask = 0,
                          !.fired = Append(tick.fired, tick.pair_id)]
  /\ execOrders' = <<>>
  /\ snap' = [pairs |-> pairs, count |-> executions_count,
              history |-> executions_history]
  /\ TickFrame
  /\ UNCHANGED <<pairs, pairOrder, executions_count, executions_history,
                 arbCur, retired>>

\* the order id of the next request of this execution
NextExecOrderId == Len(execOrders) + 1

\* an execution that goes on to leg2 whatever leg1's order returned
ExecLeg1_GoesOn(outcome) ==
  /\ arbCur
  /\ tick.pc = "leg1"
  /\ LET oid == IF outcome = "ok" THEN NextExecOrderId ELSE NoOrderId
     IN /\ execOrders' = Append(execOrders, ArbOrder(tick.cfg.leg1, tick.cfg.qty, outcome, oid))
        /\ tick' = [tick EXCEPT !.leg1_result = OrderResult(outcome = "ok", oid),
                                !.pc = "leg2"]
  /\ TickFrame
  /\ UNCHANGED <<pairs, pairOrder, executions_count, executing_pairs,
                 executions_history, arbCur, snap, retired>>

\* leg1_result = await self._place_order(config.leg1, config.qty)
ExecLeg1(outcome) ==
  /\ arbCur
  /\ tick.pc = "leg1"
  /\ LET oid == IF outcome = "ok" THEN NextExecOrderId ELSE NoOrderId
     IN /\ execOrders' = Append(execOrders, ArbOrder(tick.cfg.leg1, tick.cfg.qty, outcome, oid))
        /\ tick' = [tick EXCEPT !.leg1_result = OrderResult(outcome = "ok", oid),
                                !.pc = IF outcome = "ok" THEN "leg2" ELSE "exec_finally"]
  /\ TickFrame
  /\ UNCHANGED <<pairs, pairOrder, executions_count, executing_pairs,
                 executions_history, arbCur, snap, retired>>

\* leg2_result = await self._place_order(config.leg2, config.qty)
ExecLeg2(outcome) ==
  /\ arbCur
  /\ tick.pc = "leg2"
  /\ LET oid == IF outcome = "ok" THEN NextExecOrderId ELSE NoOrderId
     IN /\ execOrders' = Append(execOrders, ArbOrder(tick.cfg.leg2, tick.cfg.qty, outcome, oid))
        /\ tick' = [tick EXCEPT !.leg2_result = OrderResult(outcome = "ok", oid),
                                !.pc = IF outcome = "ok" THEN "exec_success"
                                       ELSE "exec_rollback"]
  /\ TickFrame
  /\ UNCHANGED <<pairs, pairOrder, executions_count, executing_pairs,
                 executions_history, arbCur, snap, retired>>

\* await self._rollback_order(config.leg1, config.qty, leg1_result.order_id)
ExecRollback(outcome) ==
  /\ arbCur
  /\ tick.pc = "exec_rollback"
  /\ LET oid == IF outcome = "ok" THEN NextExecOrderId ELSE NoOrderId
     IN execOrders' = Append(execOrders,
                             ArbOrder(ReverseLeg(tick.cfg.leg1), tick.cfg.qty, outcome, oid))
  /\ tick' = [tick EXCEPT !.pc = "exec_finally"]
  /\ TickFrame
  /\ UNCHANGED <<pairs, pairOrder, executions_count, executing_pairs,
                 executions_history, arbCur, snap, retired>>

\* both legs succeeded: counter, history, and removal at max_execs
ExecSuccess ==
  /\ arbCur
  /\ tick.pc = "exec_success"
  /\ LET pair_id == tick.pair_id
         count == CountOf(executions_count, pair_id) + 1
         record == HistoryRecord(pair_id, tick.cfg, tick.leg1_result, tick.leg2_result)
     IN /\ executions_history' =
             DictSet(executions_history, pair_id,
                     Append(HistoryOf(executions_history, pair_id), record))
        /\ IF ReachedMax(count, tick.cfg)
             THEN /\ RemovePair(pair_id)
                  /\ retired' = retired \cup {pair_id}
             ELSE /\ executions_count' = DictSet(executions_count, pair_id, count)
                  /\ UNCHANGED <<pairs, pairOrder, executing_pairs, retired>>
  /\ tick' = [tick EXCEPT !.pc = "exec_finally"]
  /\ TickFrame
  /\ UNCHANGED <<arbCur, execOrders, snap>>

\* a finally that leaves the in-flight mark where it is
ExecFinally_KeepsMark ==
  /\ arbCur
  /\ tick.pc = "exec_finally"
  /\ tick' = [tick EXCEPT !.pc = "next"]
  /\ execOrders' = <<>>
  /\ snap' = NoSnap
  /\ TickFrame
  /\ UNCHANGED <<pairs, pairOrder, executions_count, executions_history,
                 executing_pairs, arbCur, retired>>

\* finally: the in-flight mark is dropped and _execute_arbitrage returns
ExecFinally ==
  /\ arbCur
  /\ tick.pc = "exec_finally"
  /\ executing_pairs' = executing_pairs \ {tick.pair_id}
  /\ tick' = [tick EXCEPT !.pc = "next"]
  /\ execOrders' = <<>>
  /\ snap' = NoSnap
  /\ TickFrame
  /\ UNCHANGED <<pairs, pairOrder, executions_count, executions_history,
                 arbCur, retired>>

ArbControl ==
  \/ ArbStart
  \/ ArbStop
  \/ \E pair_id \in PairIds, config \in PairConfigs : ArbUpsertPair(pair_id, config)
  \/ \E pair_id \in PairIds : ArbRemovePair(pair_id)
  \/ ArbClearAllData

ArbTick ==
  \/ TickBegin
  \/ TickNext
  \/ \E book1 \in Books, book2 \in Books : TickReadBooks(book1, book2)
  \/ \E book \in Books : TickFetch1Return(book)
  \/ \E book \in Books : TickFetch2Return(book)
  \/ TickFetchRaise
  \/ TickEval

ArbExecute ==
  \/ ExecStart
  \/ \E outcome \in ArbOutcomes : ExecLeg1(outcome)
  \/ \E outcome \in ArbOutcomes : ExecLeg2(outcome)
  \/ \E outcome \in ArbOutcomes : ExecRollback(outcome)
  \/ ExecSuccess
  \/ ExecFinally

NextArb == (ArbControl \/ ArbTick \/ ArbExecute) /\ UNCHANGED <<twapVars, bookVars, monVars, lifeVars, raceVars, placeVars>>

(***************************************************************************)
(* OrderbookBook and BybitOrderbookFeed                                    *)
(*                                                                         *)
(* orderbook is one OrderbookBook instance; books is the _books dict of    *)
(* the feed.  A message carries its levels as pairs of strings, which the  *)
(* book parses with float().  lastApply and fullBook only observe.         *)
(***************************************************************************)
\* the depths an OrderbookBook is constructed with
Depths == {1, 2}

\* float(price_str), float(qty_str) on the strings the messages carry
ParseFloat(s) ==
  CASE s = "99" -> 99
    [] s = "100" -> 100
    [] s = "100.0" -> 100
    [] s = "101" -> 101
    [] s = "0" -> 0
    [] s = "1" -> 1
    [] s = "2" -> 2
    [] s = "-1" -> -1

\* the bids or the asks of a message: a list of [price_str, qty_str]
OneLevelLists ==
  { <<>>, << <<"99", "1">> >>, << <<"100", "1">> >>, << <<"100.0", "2">> >>,
    << <<"101", "1">> >>, << <<"100", "0">> >>, << <<"101", "-1">> >> }

TwoLevelLists ==
  { << <<"100", "1">>, <<"99", "1">> >>, << <<"99", "1">>, <<"101", "1">> >>,
    << <<"101", "1">>, <<"100.0", "2">> >>, << <<"100", "1">>, <<"100.0", "2">> >>,
    << <<"100", "1">>, <<"100", "0">> >>, << <<"100", "0">>, <<"100.0", "2">> >>,
    << <<"101", "-1">>, <<"99", "1">> >> }

LevelLists == OneLevelLists \cup TwoLevelLists

\* (bids, asks) of the snapshot messages
SnapshotSides ==
  (LevelLists \X { <<>>, << <<"101", "1">> >> })
    \cup ({ <<>>, << <<"99", "1">> >> } \X LevelLists)

\* (bids, asks) of the delta messages
DeltaSides == (LevelLists \X { <<>> }) \cup ({ <<>> } \X LevelLists)

\* data.get("u")
UpdateIds == {7}

\* Optional[...] = None
None == 0

\* OrderbookBook(depth)
NewBook(depth) == [depth |-> depth, bids |-> <<>>, asks |-> <<>>, u |-> None]

\* the for loop of apply_snapshot over one side, into a cleared dict
RECURSIVE SnapshotLevels(_, _)
SnapshotLevels(side, levels) ==
  IF levels = <<>> THEN side
  ELSE LET price == ParseFloat(Head(levels)[1])
           qty == ParseFloat(Head(levels)[2])
       IN SnapshotLevels(IF qty > 0 THEN DictSet(side, price, qty) ELSE side,
                         Tail(levels))

\* a delta loop that removes a level only for a quantity of exactly 0
RECURSIVE DeltaLevels_ZeroOnly(_, _)
DeltaLevels_ZeroOnly(side, levels) ==
  IF levels = <<>> THEN side
  ELSE LET price == ParseFloat(Head(levels)[1])
           qty == ParseFloat(Head(levels)[2])
       IN DeltaLevels_ZeroOnly(IF qty = 0 THEN DictDel(side, price)
                               ELSE DictSet(side, price, qty),
                               Tail(levels))

\* the for loop of apply_delta over one side
RECURSIVE DeltaLevels(_, _)
DeltaLevels(side, levels) ==
  IF levels = <<>> THEN side
  ELSE LET price == ParseFloat(Head(levels)[1])
           qty == ParseFloat(Head(levels)[2])
       IN DeltaLevels(IF qty <= 0 THEN DictDel(side, price) ELSE DictSet(side, price, qty),
                      Tail(levels))

\* sorted(keys)
RECURSIVE Sorted(_)
Sorted(keys) ==
  IF keys = {} THEN <<>>
  ELSE LET least == CHOOSE p \in keys : \A q \in keys : p <= q
       IN <<least>> \o Sorted(keys \ {least})

\* sorted(keys, reverse=True)
RECURSIVE SortedReverse(_)
SortedReverse(keys) ==
  IF keys = {} THEN <<>>
  ELSE LET greatest == CHOOSE p \in keys : \A q \in keys : p >= q
       IN <<greatest>> \o SortedReverse(keys \ {greatest})

\* for p in order[depth:]: side.pop(p, None)
PopFrom(side, order, depth) ==
  [p \in DOMAIN side \ {order[i] : i \in (depth + 1)..Len(order)} |-> side[p]]

\* a trim that keeps the lowest bids
TrimBids_KeepsLowest(bids, depth) ==
  IF Cardinality(DOMAIN bids) > depth
    THEN PopFrom(bids, Sorted(DOMAIN bids), depth)
    ELSE bids

\* _trim on the bids
TrimBids(bids, depth) ==
  IF Cardinality(DOMAIN bids) > depth
    THEN PopFrom(bids, SortedReverse(DOMAIN bids), depth)
    ELSE bids

\* a trim of the asks that stops after the loop that only passes
TrimAsks_OnlyPasses(asks, depth) == asks

\* _trim on the asks (the first loop over the asks only passes)
TrimAsks(asks, depth) ==
  IF Cardinality(DOMAIN asks) > depth
    THEN PopFrom(asks, Sorted(DOMAIN asks), depth)
    ELSE asks

\* _trim
Trim(b) == [b EXCEPT !.bids = TrimBids(b.bids, b.depth), !.asks = TrimAsks(b.asks, b.depth)]

\* a snapshot that does not clear the sides first
SnapshotUntrimmed_NoClear(b, bids, asks, u) ==
  [b EXCEPT !.bids = SnapshotLevels(b.bids, bids), !.asks = SnapshotLevels(b.asks, asks),
            !.u = u]

\* apply_snapshot up to the call of _trim
SnapshotUntrimmed(b, bids, asks, u) ==
  [b EXCEPT !.bids = SnapshotLevels(<<>>, bids), !.asks = SnapshotLevels(<<>>, asks), !.u = u]

\* apply_delta up to the call of _trim
DeltaUntrimmed(b, bids, asks, u) ==
  [b EXCEPT !.bids = DeltaLevels(b.bids, bids), !.asks = DeltaLevels(b.asks, asks), !.u = u]

\* apply_snapshot
ApplySnapshot(b, bids, asks, u) == Trim(SnapshotUntrimmed(b, bids, asks, u))

\* apply_delta
ApplyDelta(b, bids, asks, u) == Trim(DeltaUntrimmed(b, bids, asks, u))

\* max(keys) / min(keys)
MaxOf(keys) == CHOOSE p \in keys : \A q \in keys : p >= q

MinOf(keys) == CHOOSE p \in keys : \A q \in keys : p <= q

\* best_bid_ask
BestBidAsk(b) ==
  << IF DOMAIN b.bids # {} THEN MaxOf(DOMAIN b.bids) ELSE None,
     IF DOMAIN b.asks # {} THEN MinOf(DOMAIN b.asks) ELSE None >>

\* no message applied yet
NoApply == [op |-> "none", bids |-> <<>>, asks |-> <<>>, prior |-> NewBook(1)]

\* the keys of _books: (category, symbol, depth)
FeedCategories == {"spot"}

FeedSymbols == {"BTCUSDT"}

FeedInit ==
  /\ books = <<>>
  /\ lastApply = NoApply

\* a book object right after its construction
BookInit ==
  /\ orderbook \in {NewBook(depth) : depth \in Depths}
  /\ fullBook = orderbook

\* orderbook.apply_snapshot(bids, asks, u)
BookApplySnapshot(bids, asks, u) ==
  /\ orderbook' = ApplySnapshot(orderbook, bids, asks, u)
  /\ UNCHANGED books

\* orderbook.apply_delta(bids, asks, u)
BookApplyDelta(bids, asks, u) ==
  /\ orderbook' = ApplyDelta(orderbook, bids, asks, u)
  /\ UNCHANGED books

\* subscribe(category, symbol, depth): the depth is forced to 1 and the book
\* of the key is created if there is none (_ensure_ws raises without pybit,
\* and then nothing changes)
FeedSubscribe(category, symbol, ws_available) ==
  /\ LET key == <<category, symbol, 1>>
     IN books' = IF ws_available /\ key \notin DOMAIN books
                   THEN DictSet(books, key, NewBook(1))
                   ELSE books
  /\ UNCHANGED <<orderbook, lastApply, fullBook>>

\* get_top_of_book(category, symbol, depth)
GetTopOfBook(category, symbol, depth) ==
  LET key == <<category, symbol, depth>>
  IN IF key \notin DOMAIN books THEN <<None, None>> ELSE BestBidAsk(books[key])

\* the last application and the book it was applied to
ObserveApply(op, bids, asks) ==
  /\ lastApply' = [op |-> op, bids |-> bids, asks |-> asks,
                   prior |-> orderbook]
  /\ UNCHANGED fullBook

\* the book the same messages describe when nothing is ever trimmed
ObserveFull(op, bids, asks, u) ==
  /\ fullBook' = IF op = "delta" THEN DeltaUntrimmed(fullBook, bids, asks, u)
                 ELSE SnapshotUntrimmed(fullBook, bids, asks, u)
  /\ UNCHANGED lastApply

BookSnapshot ==
  \E sides \in SnapshotSides, u \in UpdateIds :
    /\ BookApplySnapshot(sides[1], sides[2], u)
    /\ ObserveApply("snapshot", sides[1], sides[2])

BookDelta ==
  \E sides \in DeltaSides, u \in UpdateIds :
    /\ BookApplyDelta(sides[1], sides[2], u)
    /\ ObserveApply("delta", sides[1], sides[2])

FeedControl ==
  \E category \in FeedCategories, symbol \in FeedSymbols, ws_available \in BOOLEAN :
    FeedSubscribe(category, symbol, ws_available)

FullSnapshot ==
  \E sides \in SnapshotSides, u \in UpdateIds :
    /\ BookApplySnapshot(sides[1], sides[2], u)
    /\ ObserveFull("snapshot", sides[1], sides[2], u)

FullDelta ==
  \E sides \in DeltaSides, u \in UpdateIds :
    /\ BookApplyDelta(sides[1], sides[2], u)
    /\ ObserveFull("delta", sides[1], sides[2], u)

(***************************************************************************)
(* handle_message: the callback that subscribe() registers for a category  *)
(* and that the stream calls with every message of its topics.             *)
(***************************************************************************)

HandlerCategories == {"linear"}

TopicSymbols == {"BTCUSDT", "ETHUSDT"}

MessageTypes == {"snapshot", "delta"}

\* a message of the topic orderbook.{depth}.{symbol}
Message(mtype, t_symbol, t_depth, bids, asks, u) ==
  [type |-> mtype, symbol |-> t_symbol, depth |-> t_depth, b |-> bids,
   a |-> asks, u |-> u]

\* the (bids, asks) a message of a type carries
MessageSides(mtype) == IF mtype = "snapshot" THEN SnapshotSides ELSE DeltaSides

\* a callback that merges a delta message into the book
HandledBook_MergesDelta(book, message) ==
  IF message.type = "snapshot"
    THEN ApplySnapshot(book, message.b, message.a, message.u)
    ELSE ApplyDelta(book, message.b, message.a, message.u)

\* the book of the key after the callback: a snapshot is applied, any other
\* type returns at once
HandledBook(book, message) ==
  IF message.type = "snapshot"
    THEN ApplySnapshot(book, message.b, message.a, message.u)
    ELSE book

\* handle_message(message) of the callback of a category
\* (lastApply keeps the message, its key and the book the key had)
HandleMessage(category, message) ==
  /\ LET k == <<category, message.symbol, message.depth>>
     IN IF k \in DOMAIN books
          THEN /\ books' = [books EXCEPT ![k] = HandledBook(@, message)]
               /\ lastApply' = [op |-> message.type, bids |-> message.b,
                                asks |-> message.a, prior |-> books[k],
                                key |-> k, u |-> message.u]
          ELSE UNCHANGED <<books, lastApply>>
  /\ UNCHANGED <<orderbook, fullBook>>

FeedMessage ==
  \E category \in HandlerCategories, mtype \in MessageTypes,
     t_symbol \in TopicSymbols, u \in UpdateIds :
    \E sides \in MessageSides(mtype) :
      HandleMessage(category, Message(mtype, t_symbol, 1, sides[1], sides[2], u))

FeedSubscribeAny ==
  \E category \in HandlerCategories, symbol \in FeedSymbols :
    FeedSubscribe(category, symbol, TRUE)

NextFeed ==
  /\ FeedSubscribeAny \/ FeedMessage
  /\ UNCHANGED <<twapVars, arbVars, monVars, lifeVars, raceVars, placeVars>>

(***************************************************************************)
(* The stream calls handle_message on its own thread; apply_snapshot runs  *)
(* there without the lock of the feed, statement by statement.             *)
(* get_top_of_book runs on the thread of the event loop: it holds the lock *)
(* and reads the two sides of the same book object one after the other.    *)
(***************************************************************************)

\* (bids, asks) of the snapshots applied while a reader may run
RaceSides ==
  { << << <<"100", "1">> >>, << <<"101", "1">> >> >>,
    << << <<"99", "1">> >>, << <<"100", "1">> >> >>,
    << << <<"100", "1">>, <<"99", "1">> >>, <<>> >> }

IdleWriter ==
  [pc |-> "idle", bids |-> <<>>, asks |-> <<>>, u |-> None,
   prior |-> NewBook(1), after |-> NewBook(1)]

IdleReader == [pc |-> "idle", bid |-> None, prior |-> NewBook(1), after |-> NewBook(1)]

NoSeen == [top |-> <<None, None>>, prior |-> NewBook(1), after |-> NewBook(1), read |-> FALSE]

RaceInit ==
  /\ writer = IdleWriter
  /\ reader = IdleReader
  /\ seen = NoSeen

RaceFrame == UNCHANGED <<books, lastApply, fullBook>>

\* apply_snapshot is entered with a message: self.bids.clear().  A read is
\* compared with one message, so a message starts between two reads.
WriterClearBids(bids, asks, u) ==
  /\ writer.pc = "idle"
  /\ reader.pc = "idle"
  /\ writer' = [pc |-> "clear_asks", bids |-> bids, asks |-> asks, u |-> u,
                prior |-> orderbook,
                after |-> ApplySnapshot(orderbook, bids, asks, u)]
  /\ orderbook' = [orderbook EXCEPT !.bids = <<>>]
  /\ UNCHANGED <<reader, seen>>
  /\ RaceFrame

\* self.asks.clear()
WriterClearAsks ==
  /\ writer.pc = "clear_asks"
  /\ orderbook' = [orderbook EXCEPT !.asks = <<>>]
  /\ writer' = [writer EXCEPT !.pc = "bids"]
  /\ UNCHANGED <<reader, seen>>
  /\ RaceFrame

\* one iteration of "for price_str, qty_str in bids", or the end of that loop
WriterBidLevel ==
  /\ writer.pc = "bids"
  /\ IF writer.bids = <<>>
       THEN /\ writer' = [writer EXCEPT !.pc = "asks"]
            /\ UNCHANGED orderbook
       ELSE /\ orderbook' = [orderbook EXCEPT
                               !.bids = SnapshotLevels(@, <<Head(writer.bids)>>)]
            /\ writer' = [writer EXCEPT !.bids = Tail(@)]
  /\ UNCHANGED <<reader, seen>>
  /\ RaceFrame

\* one iteration of "for price_str, qty_str in asks", or the end of that loop
WriterAskLevel ==
  /\ writer.pc = "asks"
  /\ IF writer.asks = <<>>
       THEN /\ writer' = [writer EXCEPT !.pc = "trim"]
            /\ UNCHANGED orderbook
       ELSE /\ orderbook' = [orderbook EXCEPT
                               !.asks = SnapshotLevels(@, <<Head(writer.asks)>>)]
            /\ writer' = [writer EXCEPT !.asks = Tail(@)]
  /\ UNCHANGED <<reader, seen>>
  /\ RaceFrame

\* self.u = u; self._trim(); apply_snapshot returns
WriterTrim ==
  /\ writer.pc = "trim"
  /\ orderbook' = Trim([orderbook EXCEPT !.u = writer.u])
  /\ writer' = [IdleWriter EXCEPT !.prior = writer.prior, !.after = writer.after]
  /\ UNCHANGED <<reader, seen>>
  /\ RaceFrame

\* get_top_of_book takes the lock; best_bid_ask reads the bids
ReaderBid ==
  /\ reader.pc = "idle"
  /\ reader' = [pc |-> "ask", bid |-> BestBidAsk(orderbook)[1],
                prior |-> IF writer.pc = "idle" THEN orderbook ELSE writer.prior,
                after |-> IF writer.pc = "idle" THEN orderbook ELSE writer.after]
  /\ UNCHANGED <<orderbook, writer, seen>>
  /\ RaceFrame

\* best_bid_ask reads the asks and get_top_of_book returns the two prices
ReaderAsk ==
  /\ reader.pc = "ask"
  /\ seen' = [top |-> <<reader.bid, BestBidAsk(orderbook)[2]>>,
              prior |-> reader.prior, after |-> reader.after, read |-> TRUE]
  /\ reader' = IdleReader
  /\ UNCHANGED <<orderbook, writer>>
  /\ RaceFrame

FeedWriter ==
  \/ \E sides \in RaceSides, u \in UpdateIds : WriterClearBids(sides[1], sides[2], u)
  \/ WriterClearAsks
  \/ WriterBidLevel
  \/ WriterAskLevel
  \/ WriterTrim

FeedReader == ReaderBid \/ ReaderAsk

NextFeedRace ==
  /\ FeedWriter \/ FeedReader
  /\ UNCHANGED <<twapVars, arbVars, monVars, lifeVars, placeVars>>

(***************************************************************************)
(* Order placement with its error handling: _place_perp_order,             *)
(* _handle_borrowing_error, _place_spot_order and _handle_collateral_error.*)
(* Each handler retries by calling the placement function again, so the    *)
(* chain of retries is a chain of nested calls.                            *)
(***************************************************************************)

\* nested placement calls the interpreter allows before it raises RecursionError
RecursionLimit == 4

\* the error codes the handlers look for in retMsg or in the exception text
ErrCodes == {"170037", "170131", "170207", "170344"}

\* what place_order answers: retCode 0, or a retMsg / an exception carrying a code
ExchangeAnswers ==
  {[raised |-> FALSE, code |-> "0"]}
    \cup [raised : BOOLEAN, code : ErrCodes \cup {"other"}]

\* what set_collateral_coin answers: retCode 0, another retCode, an exception
CollateralAnswers == {"0", "failed", "raised"}

IdlePlacement ==
  [kind |-> "none", pc |-> "idle", isLeverage |-> 0, depth |-> 0,
   requests |-> 0, fixes |-> 0, answers |-> <<>>, success |-> FALSE]

PlaceInit == placement = IdlePlacement

\* a slice or a rollback calls one of the two placement functions
PlaceCall(kind, isLeverage) ==
  /\ placement.pc = "idle"
  /\ placement' = [IdlePlacement EXCEPT !.kind = kind, !.pc = "place",
                                        !.isLeverage = isLeverage, !.depth = 1]

Returned(p, success) == [p EXCEPT !.pc = "returned", !.success = success]

\* the handler calls the placement function again; past the limit of nested
\* calls the call raises RecursionError, which the enclosing except turns
\* into a failed OrderResult
Retry(p, isLeverage) ==
  IF p.depth < RecursionLimit
    THEN [p EXCEPT !.pc = "place", !.depth = @ + 1, !.isLeverage = isLeverage]
    ELSE Returned(p, FALSE)

Answered(p, answer) ==
  [p EXCEPT !.requests = @ + 1, !.answers = Append(@, answer)]

\* _place_perp_order: one place_order request and the branch on its answer
PlacePerpOrder(answer) ==
  /\ placement.kind = "perp"
  /\ placement.pc = "place"
  /\ LET p == Answered(placement, answer)
     IN placement' =
          CASE answer.code = "0" -> Returned(p, TRUE)
            [] answer.code = "170131" -> Returned(p, FALSE)
            [] answer.code = "170207" -> [p EXCEPT !.pc = "borrowing"]
            [] OTHER -> Returned(p, FALSE)

\* _handle_borrowing_error: time.sleep(10), then _place_perp_order again
HandleBorrowingError ==
  /\ placement.pc = "borrowing"
  /\ placement' = Retry(placement, placement.isLeverage)

\* _place_spot_order: one place_order request and the branch on its answer
PlaceSpotOrder(answer) ==
  /\ placement.kind = "spot"
  /\ placement.pc = "place"
  /\ LET p == Answered(placement, answer)
     IN placement' =
          CASE answer.code = "0" -> Returned(p, TRUE)
            [] answer.code = "170037" -> [p EXCEPT !.pc = "collateral"]
            [] answer.code = "170131" -> Returned(p, FALSE)
            [] answer.code = "170344" -> Retry(p, 0)
            [] OTHER -> Returned(p, FALSE)

\* _handle_collateral_error: set_collateral_coin, and on retCode 0
\* time.sleep(1), then _place_spot_order again with the same isLeverage
HandleCollateralError(result) ==
  /\ placement.pc = "collateral"
  /\ LET p == [placement EXCEPT !.fixes = @ + 1]
     IN placement' = IF result = "0" THEN Retry(p, p.isLeverage)
                                     ELSE Returned(p, FALSE)

\* the OrderResult reaches the caller
PlaceReturn ==
  /\ placement.pc = "returned"
  /\ placement' = IdlePlacement

PlacePerp ==
  \/ PlaceCall("perp", 0)
  \/ \E answer \in ExchangeAnswers : PlacePerpOrder(answer)
  \/ HandleBorrowingError

PlaceSpot ==
  \/ \E isLeverage \in {0, 1} : PlaceCall("spot", isLeverage)
  \/ \E answer \in ExchangeAnswers : PlaceSpotOrder(answer)
  \/ \E result \in CollateralAnswers : HandleCollateralError(result)

NextPlace ==
  /\ PlacePerp \/ PlaceSpot \/ PlaceReturn
  /\ UNCHANGED <<twapVars, arbVars, bookVars, monVars, lifeVars, raceVars>>

NextBook == (BookSnapshot \/ BookDelta \/ FeedControl) /\ UNCHANGED <<twapVars, arbVars, monVars, lifeVars, raceVars, placeVars>>

NextBookFull == (FullSnapshot \/ FullDelta) /\ UNCHANGED <<twapVars, arbVars, monVars, lifeVars, raceVars, placeVars>>

(***************************************************************************)
(* TWAPEngine: emergency rollback                                          *)
(***************************************************************************)
\* What the rollback orders of one emergency_rollback call return: the first,
\* third, ... order returns the first entry, the others the second
RollbackPatterns == {"ok", "fail"} \X {"ok", "fail"}

\* sliceIndex of the records of an emergency rollback
EmergencySlice == 0 - 1

\* an emergency rollback that collects the legs of the last slice only
SuccessfulLegs_LastSliceOnly(pid) ==
  LET e == executions[pid]
      last == IF e = <<>> THEN 0 ELSE e[Len(e)].sliceIndex
      succ == SelectSeq(e, LAMBDA x : x.success /\ ~x.is_rollback
                                         /\ x.sliceIndex = last)
  IN [i \in 1..Len(succ) |->
        [leg_index |-> succ[i].legIndex,
         leg |-> plans[pid].legs[succ[i].legIndex + 1],
         order_id |-> succ[i].orderId,
         side |-> plans[pid].legs[succ[i].legIndex + 1].side]]

\* successful_legs of emergency_rollback: one entry per execution record with
\* success and not is_rollback, in the order of the history
SuccessfulLegs(pid) ==
  LET succ == SelectSeq(executions[pid], LAMBDA x : x.success /\ ~x.is_rollback)
  IN [i \in 1..Len(succ) |->
        [leg_index |-> succ[i].legIndex,
         leg |-> plans[pid].legs[succ[i].legIndex + 1],
         order_id |-> succ[i].orderId,
         side |-> plans[pid].legs[succ[i].legIndex + 1].side]]

\* _rollback_successful_legs run to its end: the orders it places, the records
\* it appends and the next order id, from acc on.
RECURSIVE RollbackAll(_, _, _, _, _, _)
RollbackAll(pid, slice_index, legs, k, pattern, acc) ==
  IF k > Len(legs) THEN acc
  ELSE
    LET leg_info == legs[k]
        leg == leg_info.leg
        placed == leg.exchange = "bybit"
        res == IF placed THEN pattern[2 - (k % 2)] ELSE "fail"
        oid == IF res = "ok" THEN acc.nextOrderId ELSE NoOrderId
    IN RollbackAll(pid, slice_index, legs, k + 1, pattern,
         [orders |-> IF placed
                       THEN Append(acc.orders,
                              Order(pid, leg, ReverseSide(leg_info.side),
                                    plans[pid].sliceQty, TRUE, res, oid))
                       ELSE acc.orders,
          records |-> Append(acc.records,
                        Execution(pid, slice_index, leg_info.leg_index, oid, res,
                                  plans[pid].sliceQty, TRUE, leg_info.order_id)),
          nextOrderId |-> IF res = "ok" THEN acc.nextOrderId + 1
                                         ELSE acc.nextOrderId])

\* What emergency_rollback returns
EmergencyRollbackResult(pid) == pid \in DOMAIN plans

\* emergency_rollback; one call per history is modelled
TwapEmergencyRollback(pid, pattern) ==
  /\ twapCur = 0
  /\ IF ~EmergencyRollbackResult(pid)
       THEN UNCHANGED <<executions, twapOrders, nextOrderId>>
       ELSE /\ \A i \in 1..Len(executions[pid]) :
                 executions[pid][i].sliceIndex # EmergencySlice
            /\ LET r == RollbackAll(pid, EmergencySlice, SuccessfulLegs(pid), 1,
                                    pattern,
                                    [orders |-> twapOrders,
                                     records |-> executions[pid],
                                     nextOrderId |-> nextOrderId])
               IN /\ executions' = [executions EXCEPT ![pid] = r.records]
                  /\ twapOrders' = r.orders
                  /\ nextOrderId' = r.nextOrderId
  /\ UNCHANGED <<plans, progress, running_tasks, tasks, twapCur>>

TwapEmergency ==
  \E pid \in AllIds, pattern \in RollbackPatterns : TwapEmergencyRollback(pid, pattern)

\* totalQty of the plans and ids of the tasks where administrative calls are
\* studied
AdminTotalQtys == {1, 2}

AdminTaskIds == {1, 2}

TwapAdminCreate ==
  \E pid \in PlanIds, totalQty \in AdminTotalQtys, sliceQty \in SliceQtys,
     legs \in LegSeqs :
    TwapCreatePlan(pid, totalQty, sliceQty, legs)

\* "except Exception as e" of _execute_arbitrage: a statement between the mark
\* and the finally raises; the error is logged and the finally runs
ExecRaise ==
  /\ arbCur
  /\ tick.pc \in {"leg1", "leg2", "exec_rollback", "exec_success"}
  /\ tick' = [tick EXCEPT !.pc = "exec_finally"]
  /\ TickFrame
  /\ UNCHANGED <<pairs, pairOrder, executions_count, executing_pairs,
                 executions_history, arbCur, execOrders, snap, retired>>

\* "except Exception as e" of _run_loop: a statement of _tick outside the try
\* of a pair (the head of the for loop) raises; the task logs the error, sets
\* _running = False and ends
LoopRaise ==
  /\ arbCur
  /\ tick.pc = "next"
  /\ arbRunning' = FALSE
  /\ tick' = IdleTick("off")
  /\ arbCur' = FALSE
  /\ UNCHANGED <<pairs, pairOrder, executions_count, executing_pairs,
                 executions_history, execOrders, snap, retired, upserts>>

NextArbRaise ==
  /\ ArbControl \/ ArbTick \/ ArbExecute \/ ExecRaise \/ LoopRaise
  /\ UNCHANGED <<twapVars, bookVars, monVars, lifeVars, raceVars, placeVars>>

(***************************************************************************)
(* PUT /arbitrage/pairs/{pair_id}: the route changes the fields of the     *)
(* PairConfig object that the engine holds; no counter is touched.         *)
(***************************************************************************)

\* UpdatePairRequest: has names the fields that are not None
UpdatePairRequest(has, enabled, threshold, qty, maxExecs) ==
  [has |-> has, enabled |-> enabled, threshold |-> threshold, qty |-> qty,
   maxExecs |-> maxExecs]

UpdateRequests ==
  { UpdatePairRequest({"maxExecs"}, TRUE, 0, 1, 3),
    UpdatePairRequest({"enabled", "threshold", "qty", "maxExecs"}, TRUE, 0, 1, 1) }

\* the configuration after the partial update
UpdatedConfig(cfg, req) ==
  [cfg EXCEPT
     !.enabled = IF "enabled" \in req.has THEN req.enabled ELSE @,
     !.threshold = IF "threshold" \in req.has THEN req.threshold ELSE @,
     !.qty = IF "qty" \in req.has THEN req.qty ELSE @,
     !.max_execs = IF "maxExecs" \in req.has /\ req.maxExecs >= 1
                     THEN req.maxExecs ELSE @]

\* update_pair, called while the loop task sleeps between two ticks (no tick
\* holds the configuration object then); an unknown pair is answered 404
ArbUpdatePair(pair_id, req) ==
  /\ ~arbCur
  /\ tick.pc \in {"off", "sleep"}
  /\ pairs' = IF pair_id \in DOMAIN pairs
                THEN [pairs EXCEPT ![pair_id] = UpdatedConfig(@, req)]
                ELSE pairs
  /\ UNCHANGED <<pairOrder, arbRunning, executions_count, executing_pairs,
                 executions_history, tick, arbCur, execOrders, snap, retired,
                 upserts>>

\* the pair ids of the update requests
UpdatePairIds == {"A"}

ArbUpdate ==
  \E pair_id \in UpdatePairIds, req \in UpdateRequests : ArbUpdatePair(pair_id, req)

NextArbUpdate ==
  /\ ArbControl \/ ArbTick \/ ArbExecute \/ ArbUpdate
  /\ UNCHANGED <<twapVars, bookVars, monVars, lifeVars, raceVars, placeVars>>

NextTwapRollback ==
  /\ TwapAdminCreate \/ TwapControl \/ TwapTask \/ TwapEmergency
  /\ DOMAIN tasks' \subseteq AdminTaskIds
  /\ UNCHANGED <<arbVars, bookVars, monVars, lifeVars, raceVars, placeVars>>

(***************************************************************************)
(* TWAP: clear_all_data, and the delete and update routes.  These remove   *)
(* or replace the entries of plans, progress and executions under a task   *)
(* that may still be alive.                                                *)
(***************************************************************************)
\* legs of the plans an update request carries
UpdateLegSeqs == { <<PerpSell>> }

\* legs of the plans created where these calls are studied
AdminLegSeqs == { <<SpotBuy>>, <<SpotBuy, PerpSell>> }

\* The tasks clear_all_data cancels: the values of _running_tasks
Registered == {running_tasks[pid] : pid \in DOMAIN running_tasks}

\* A task whose plan and progress left the dicts: one that never ran has no
\* locals yet, a sleeping one keeps the objects it holds; a task that ended or
\* has a cancellation pending is not affected.
Detach(f, removed) ==
  IF f.pc = "sleeping" /\ ~f.cancelled
    THEN [f EXCEPT !.pc = "orphan_sleeping",
                   !.held = [plan |-> plans[f.plan],
                             state |-> progress[f.plan].state]]
  ELSE IF f.pc = "new" /\ ~f.cancelled /\ removed
    THEN [f EXCEPT !.pc = "orphan_new"]
  ELSE f

\* clear_all_data
TwapClearAllData ==
  /\ twapCur = 0
  /\ tasks' = [t \in DOMAIN tasks |->
                 IF t \in Registered /\ tasks[t].pc # "done"
                   THEN [tasks[t] EXCEPT !.cancelled = TRUE]
                   ELSE Detach(tasks[t], TRUE)]
  /\ plans' = <<>>
  /\ progress' = <<>>
  /\ executions' = <<>>
  /\ running_tasks' = <<>>
  /\ UNCHANGED <<twapCur, twapOrders, nextOrderId>>

\* routes that accept the request in every state of the plan
RouteAccepts_Always(pid) == pid \in DOMAIN plans

\* Whether the delete and update routes accept the request
RouteAccepts(pid) ==
  pid \in DOMAIN plans /\ progress[pid].state \notin {"running", "paused"}

\* DELETE /twap/plans/{plan_id}
TwapDeletePlan(pid) ==
  /\ twapCur = 0
  /\ IF ~RouteAccepts(pid)
       THEN UNCHANGED <<plans, progress, executions, running_tasks, tasks>>
       ELSE /\ tasks' = [t \in DOMAIN tasks |->
                           IF tasks[t].plan # pid THEN tasks[t]
                           ELSE IF pid \in DOMAIN running_tasks
                                   /\ running_tasks[pid] = t
                                   /\ tasks[t].pc # "done"
                             THEN [tasks[t] EXCEPT !.cancelled = TRUE]
                           ELSE Detach(tasks[t], TRUE)]
            /\ running_tasks' = DictDel(running_tasks, pid)
            /\ plans' = DictDel(plans, pid)
            /\ progress' = DictDel(progress, pid)
            /\ executions' = DictDel(executions, pid)
  /\ UNCHANGED <<twapCur, twapOrders, nextOrderId>>

\* PUT /twap/plans/{plan_id}
TwapUpdatePlan(pid, totalQty, sliceQty, legs) ==
  /\ twapCur = 0
  /\ IF ~RouteAccepts(pid)
       THEN UNCHANGED <<plans, progress, executions, tasks>>
       ELSE /\ tasks' = [t \in DOMAIN tasks |->
                           IF tasks[t].plan # pid THEN tasks[t]
                           ELSE Detach(tasks[t], FALSE)]
            /\ plans' = [plans EXCEPT ![pid] =
                           [planId |-> pid, totalQty |-> totalQty,
                            sliceQty |-> sliceQty, legs |-> legs]]
            /\ progress' = [progress EXCEPT ![pid] =
                              [executed |-> 0, remaining |-> totalQty,
                               slicesDone |-> 0,
                               slicesTotal |-> totalQty \div sliceQty,
                               state |-> "pending"]]
            /\ executions' = [executions EXCEPT ![pid] = <<>>]
  /\ UNCHANGED <<running_tasks, twapCur, twapOrders, nextOrderId>>

\* A task created for a plan that is gone is scheduled: self.plans[plan_id]
\* raises KeyError before the try block, or the pending cancellation ends it.
OrphanStart(t) ==
  /\ twapCur = 0
  /\ t \in DOMAIN tasks
  /\ tasks[t].pc = "orphan_new"
  /\ tasks' = [tasks EXCEPT ![t] = EndedTask(tasks[t].plan)]
  /\ UNCHANGED <<plans, progress, executions, running_tasks, twapCur,
                 twapOrders, nextOrderId>>

\* The sleep of a task that holds objects no longer in the dicts is over (or
\* its cancellation arrives).  It goes on from its own progress object: when
\* that is still RUNNING and slices remain it places the order of the first
\* leg, and self.executions[plan_id] raises KeyError (except Exception: FAILED
\* on its own object); in every case the finally block drops the registration
\* found under the plan id.
OrphanWake(t, outcome) ==
  /\ twapCur = 0
  /\ t \in DOMAIN tasks
  /\ tasks[t].pc = "orphan_sleeping"
  /\ LET f == tasks[t]
         plan == f.held.plan
         goes_on == /\ ~f.cancelled
                    /\ f.held.state = "running"
                    /\ f.slice_index + 1 < SlicesTotal(plan)
         leg == plan.legs[1]
         placed == goes_on /\ leg.exchange = "bybit"
         oid == IF outcome = "ok" THEN nextOrderId ELSE NoOrderId
     IN
     /\ goes_on => f.plan \notin DOMAIN executions
     /\ placed \/ outcome = "fail"
     /\ twapOrders' = IF placed
                        THEN Append(twapOrders,
                               Order(f.plan, leg, OrderSide(leg), plan.sliceQty,
                                     FALSE, outcome, oid))
                        ELSE twapOrders
     /\ nextOrderId' = IF placed /\ outcome = "ok" THEN nextOrderId + 1
                                                   ELSE nextOrderId
     /\ running_tasks' = DictDel(running_tasks, f.plan)
     /\ tasks' = [tasks EXCEPT ![t] = EndedTask(f.plan)]
  /\ UNCHANGED <<plans, progress, executions, twapCur>>

\* create_plan under a fresh uuid: an id is handed out again only when no task
\* made for its earlier use is left
TwapAdminCreateFresh ==
  \E pid \in PlanIds, totalQty \in AdminTotalQtys, sliceQty \in SliceQtys,
     legs \in AdminLegSeqs :
    /\ \A t \in DOMAIN tasks : tasks[t].pc = "done" \/ tasks[t].plan # pid
    /\ TwapCreatePlan(pid, totalQty, sliceQty, legs)

TwapAdmin ==
  \/ TwapClearAllData
  \/ \E pid \in AllIds : TwapDeletePlan(pid)
  \/ \E pid \in AllIds, totalQty \in AdminTotalQtys, sliceQty \in SliceQtys,
        legs \in UpdateLegSeqs :
       TwapUpdatePlan(pid, totalQty, sliceQty, legs)

TwapOrphan ==
  \E t \in AdminTaskIds :
    \/ OrphanStart(t)
    \/ \E outcome \in Outcomes : OrphanWake(t, outcome)

NextTwapAdmin ==
  /\ TwapAdminCreateFresh \/ TwapControl \/ TwapTask \/ TwapAdmin \/ TwapOrphan
  /\ DOMAIN tasks' \subseteq AdminTaskIds
  /\ UNCHANGED <<arbVars, bookVars, monVars, lifeVars, raceVars, placeVars>>

(***************************************************************************)
(* ArbitrageEngine.start with the monitoring configuration                 *)
(***************************************************************************)
\* monitoring_pairs = {} (no data file)
MonInit == monitoring_pairs = <<>>

\* The config dict create_monitoring_pair stores
MonitoringConfig(leg1, leg2, threshold, qty, totalAmount, enabled) ==
  [leg1 |-> leg1, leg2 |-> leg2, threshold |-> threshold, qty |-> qty,
   totalAmount |-> totalAmount, enabled |-> enabled]

\* the requests to POST /monitoring/pairs
MonitoringConfigs ==
  { MonitoringConfig(BuySpot, SellPerp, 1, 1, 1, TRUE),
    MonitoringConfig(SellPerp, BuySpot, 0, 2, 4, TRUE),
    MonitoringConfig(BuySpot, SellPerp, 1, 1, 1, FALSE) }

\* POST /monitoring/pairs
CreateMonitoringPair(pair_id, config) ==
  /\ monitoring_pairs' = DictSet(monitoring_pairs, pair_id, config)
  /\ UNCHANGED arbVars

\* The fields of the dataclass PairConfig that have no default
PairConfigRequired == {"leg1", "leg2", "threshold", "qty", "totalAmount"}

\* The keyword arguments _load_monitoring_pairs passes to PairConfig
LoadKeywords == {"leg1", "leg2", "threshold", "qty", "enabled", "max_execs"}

\* PairConfig(**kwargs) returns: a call without a required field raises
\* TypeError
PairConfigReturns(keywords) == PairConfigRequired \subseteq keywords

\* The ids _load_monitoring_pairs puts into _pairs: the enabled configs whose
\* conversion does not raise (the except clause of the loop body skips the
\* others)
LoadedIds ==
  {id \in DOMAIN monitoring_pairs :
     monitoring_pairs[id].enabled /\ PairConfigReturns(LoadKeywords)}

\* config.get("maxExecs", 1): create_monitoring_pair stores no maxExecs
LoadedConfig(config) ==
  PairConfig(config.leg1, config.leg2, config.threshold, config.qty,
             config.enabled, 1)

\* the ids of a set in the order of the dict
RECURSIVE AppendAll(_, _)
AppendAll(order, ids) ==
  IF ids = {} THEN order
  ELSE LET id == CHOOSE x \in ids : TRUE
       IN AppendAll(IF \E i \in 1..Len(order) : order[i] = id
                      THEN order ELSE Append(order, id),
                    ids \ {id})

\* _load_monitoring_pairs
LoadMonitoringPairs ==
  /\ pairs' = [id \in DOMAIN pairs \cup LoadedIds |->
                 IF id \in LoadedIds THEN LoadedConfig(monitoring_pairs[id])
                                     ELSE pairs[id]]
  /\ pairOrder' = AppendAll(pairOrder, LoadedIds)

\* start(): nothing when running; else load, _running = True, create the loop
\* task
ArbStartLoad ==
  /\ ~arbCur
  /\ IF arbRunning
       THEN UNCHANGED <<pairs, pairOrder, arbRunning, tick>>
       ELSE LoadMonitoringPairs /\ EngineStart
  /\ UNCHANGED <<executions_count, executing_pairs, executions_history, arbCur,
                 execOrders, snap, retired, upserts, monitoring_pairs>>

ArbLoadControl ==
  \/ \E pair_id \in PairIds, config \in MonitoringConfigs :
       CreateMonitoringPair(pair_id, config)
  \/ ArbStartLoad
  \/ ArbStop /\ UNCHANGED monitoring_pairs
  \/ \E pair_id \in PairIds, config \in PairConfigs :
       ArbUpsertPair(pair_id, config) /\ UNCHANGED monitoring_pairs
  \/ \E pair_id \in PairIds : ArbRemovePair(pair_id) /\ UNCHANGED monitoring_pairs

NextArbLoad == ArbLoadControl /\ UNCHANGED <<twapVars, bookVars, lifeVars, raceVars, placeVars>>

(***************************************************************************)
(* The loop task of the arbitrage engine.  start() does not suspend;       *)
(* stop() suspends at "await self._task" until the task it cancelled has   *)
(* ended, and other handlers run meanwhile.  A loop task is suspended at   *)
(* the sleep between two ticks or, inside a tick, at a fetch of an order   *)
(* book; a cancellation reaches it where it is suspended.                  *)
(***************************************************************************)

NoTask == 0

LoopTaskIds == {1, 2, 3}

LifePairIds == {"A"}

NewLoop == [pc |-> "ready", cancelled |-> FALSE]

LifeInit ==
  /\ loops = <<>>
  /\ task_ref = NoTask
  /\ stopping = {}
  /\ quiet = FALSE

\* the loop tasks that have not ended
AliveLoops == {i \in 1..Len(loops) : loops[i].pc # "done"}

\* the loop tasks that will run another statement of _run_loop or _tick
TickingLoops == {i \in AliveLoops : ~loops[i].cancelled}

\* start(): "if self._running: return True"
StartReturnsEarly == arbRunning

\* start()
LifeStart ==
  /\ IF StartReturnsEarly
       THEN UNCHANGED <<pairs, pairOrder, arbRunning, loops, task_ref>>
       ELSE /\ Len(loops) + 1 \in LoopTaskIds
            /\ LoadMonitoringPairs
            /\ arbRunning' = TRUE
            /\ loops' = Append(loops, NewLoop)
            /\ task_ref' = Len(loops) + 1
  /\ quiet' = FALSE
  /\ UNCHANGED <<stopping, executions_count, executing_pairs,
                 executions_history, arbCur, execOrders, snap, retired,
                 upserts, tick, monitoring_pairs>>

\* the arbitrage variables that stop() and the loop task's own control flow
\* leave alone
LifeRest ==
  UNCHANGED <<pairs, pairOrder, executions_count, executing_pairs,
              executions_history, arbCur, execOrders, snap, retired, upserts,
              tick, monitoring_pairs>>

\* stop() up to its first suspension: _running = False; with a task, cancel
\* it and await it.  Awaiting a task that has ended does not suspend.
LifeStopBegin ==
  /\ arbRunning' = FALSE
  /\ IF task_ref = NoTask
       THEN /\ quiet' = TRUE
            /\ UNCHANGED <<loops, task_ref, stopping>>
       ELSE IF loops[task_ref].pc = "done"
         THEN /\ task_ref' = NoTask
              /\ quiet' = TRUE
              /\ UNCHANGED <<loops, stopping>>
         ELSE /\ loops' = [loops EXCEPT ![task_ref].cancelled = TRUE]
              /\ stopping' = stopping \cup {task_ref}
              /\ UNCHANGED <<task_ref, quiet>>
  /\ LifeRest

\* stop() after "await self._task": self._task = None; return True
LifeStopEnd(i) ==
  /\ i \in stopping
  /\ loops[i].pc = "done"
  /\ stopping' = stopping \ {i}
  /\ task_ref' = NoTask
  /\ quiet' = IF arbRunning THEN quiet ELSE TRUE
  /\ UNCHANGED <<loops, arbRunning>>
  /\ LifeRest

\* a tick runs to its end and the task sleeps, or it suspends at a fetch
TickOutcomes == {"sleep", "fetch"}

\* _run_loop at "while self._running": leave the loop, or run _tick
LoopTop(i, outcome) ==
  /\ i \in TickingLoops
  /\ loops[i].pc \in {"ready", "sleep"}
  /\ loops' = [loops EXCEPT ![i].pc = IF arbRunning THEN outcome ELSE "done"]
  /\ UNCHANGED <<arbRunning, task_ref, stopping, quiet>>
  /\ LifeRest

\* _tick goes on after a fetch: the triggers, the orders of an execution
LoopFetched(i, outcome) ==
  /\ i \in TickingLoops
  /\ loops[i].pc = "fetch"
  /\ loops' = [loops EXCEPT ![i].pc = outcome]
  /\ UNCHANGED <<arbRunning, task_ref, stopping, quiet>>
  /\ LifeRest

\* _run_loop: "except asyncio.CancelledError", where the task was suspended
LoopCancelled(i) ==
  /\ i \in AliveLoops
  /\ loops[i].cancelled
  /\ loops' = [loops EXCEPT ![i].pc = "done"]
  /\ UNCHANGED <<arbRunning, task_ref, stopping, quiet>>
  /\ LifeRest

\* a statement of _tick runs
TickRuns ==
  \E i \in 1..Len(loops), outcome \in TickOutcomes :
    \/ LoopTop(i, outcome) /\ arbRunning
    \/ LoopFetched(i, outcome)

LifeControl ==
  \/ \E pair_id \in LifePairIds, config \in MonitoringConfigs :
       CreateMonitoringPair(pair_id, config) /\ UNCHANGED lifeVars
  \/ LifeStart
  \/ LifeStopBegin
  \/ \E i \in LoopTaskIds : LifeStopEnd(i)

LifeLoop ==
  \E i \in LoopTaskIds :
    \/ \E outcome \in TickOutcomes : LoopTop(i, outcome)
    \/ \E outcome \in TickOutcomes : LoopFetched(i, outcome)
    \/ LoopCancelled(i)

NextArbLife ==
  /\ LifeControl \/ LifeLoop
  /\ UNCHANGED <<twapVars, bookVars, raceVars, placeVars>>

Init ==
  /\ TwapInit
  /\ ArbInit
  /\ FeedInit
  /\ MonInit
  /\ LifeInit
  /\ RaceInit
  /\ PlaceInit
  /\ orderbook = NewBook(1)
  /\ fullBook = orderbook

InitBook ==
  TwapInit /\ ArbInit /\ FeedInit /\ MonInit /\ LifeInit /\ RaceInit /\ PlaceInit /\ BookInit

SpecTwap == Init /\ [][NextTwap]_vars

SpecArb == Init /\ [][NextArb]_vars

SpecArbRaise == Init /\ [][NextArbRaise]_vars

SpecArbUpdate == Init /\ [][NextArbUpdate]_vars

\* The event loop runs every task that is ready: a task that can take a step
\* (it was created, its sleep is over, or it holds the loop between two awaits)
\* takes it.
SpecTwapLive ==
  Init /\ [][NextTwap]_vars
       /\ \A t \in 1..MaxTasks : WF_vars(TaskRun(t) /\ UNCHANGED <<arbVars, bookVars, monVars, lifeVars, raceVars, placeVars>>)

SpecTwapRollback == Init /\ [][NextTwapRollback]_vars

SpecTwapAdmin == Init /\ [][NextTwapAdmin]_vars

SpecArbLoad == Init /\ [][NextArbLoad]_vars

SpecArbLife == Init /\ [][NextArbLife]_vars

SpecBook == InitBook /\ [][NextBook]_vars

SpecFeed == Init /\ [][NextFeed]_vars

SpecFeedRace == Init /\ [][NextFeedRace]_vars

SpecPlace == Init /\ [][NextPlace]_vars

SpecBookFull == InitBook /\ [][NextBookFull]_vars

(***************************************************************************)
(* Claims about the TWAP scheduler                                         *)
(***************************************************************************)
TerminalStates == {"completed", "cancelled", "failed"}

\* The orders of one plan, as the exchange received them
PlanOrders(pid) == SelectSeq(twapOrders, LAMBDA o : o.plan = pid)

\* How many of the first j execution records of pid stand for a request that
\* reached the exchange (a leg on another venue is refused before any request)
PlacedUpTo(pid, j) ==
  Cardinality({k \in 1..j :
                 plans[pid].legs[executions[pid][k].legIndex + 1].exchange = "bybit"})

\* Number of leg (non-rollback) execution records of a plan
LegRecCount(pid) ==
  Len(SelectSeq(executions[pid], LAMBDA e : ~e.is_rollback))

\* Number of leg (non-rollback) orders of a plan at the exchange
LegOrderCount(pid) ==
  Len(SelectSeq(twapOrders, LAMBDA o : o.plan = pid /\ ~o.rollback))

\* C1: when a leg fails in slice N after M legs of that slice succeeded, the
\* task has placed, once it gives the loop back, exactly M compensating orders,
\* one per succeeded leg: same symbol and category, opposite side, quantity
\* sliceQty; exactly M rollback records follow the failed record, each naming
\* the original order id; and no leg order of a later leg or slice follows.
C1_RollbackOnLegFailure ==
  twapCur = 0 =>
    \A pid \in DOMAIN executions :
      LET e == executions[pid]
          o == PlanOrders(pid)
          plan == plans[pid]
      IN
      \A i \in 1..Len(e) :
        (~e[i].is_rollback /\ ~e[i].success) =>
          LET M == e[i].legIndex
              N == e[i].sliceIndex
          IN
          /\ i > M
          /\ Len(e) >= i + M
          /\ \A k \in 1..M :
               LET orig == e[i - M + k - 1]
                   rb == e[i + k]
                   oo == o[PlacedUpTo(pid, i - M + k - 1)]
                   ro == o[PlacedUpTo(pid, i + k)]
               IN
               /\ ~orig.is_rollback /\ orig.success
               /\ orig.sliceIndex = N /\ orig.legIndex = k - 1
               /\ orig.orderId # NoOrderId /\ oo.id = orig.orderId
               /\ rb.is_rollback /\ rb.sliceIndex = N /\ rb.legIndex = k - 1
               /\ rb.original_order_id = orig.orderId
               /\ rb.qty = plan.sliceQty
               /\ ro.rollback
               /\ ro.symbol = oo.symbol /\ ro.symbol = plan.legs[k].symbol
               /\ ro.category = oo.category
               /\ ro.side # oo.side
               /\ ro.qty = plan.sliceQty
          /\ \A k \in (i + 1)..Len(e) :
               /\ e[k].is_rollback
               /\ k > i + M => e[k].sliceIndex # N
          /\ Len(o) = PlacedUpTo(pid, Len(e))
          /\ \A k \in (PlacedUpTo(pid, i) + 1)..Len(o) : o[k].rollback

\* C1 witness: a leg failed in a slice after the first, after at least one leg
\* of that slice had succeeded, and the rollback is over.
C1_Witness ==
  /\ twapCur = 0
  /\ \E pid \in DOMAIN executions :
       \E i \in 1..Len(executions[pid]) :
         LET r == executions[pid][i] IN
         /\ ~r.is_rollback /\ ~r.success
         /\ r.legIndex >= 1 /\ r.sliceIndex >= 1
         /\ Len(executions[pid]) = i + r.legIndex

\* C3 (as claimed): a resumed plan continues from its stored progress, so no
\* (slice, leg) of a plan is ever ordered successfully twice, and a completed
\* plan has slicesDone = slicesTotal.
C3_ResumeContinuesFromStored ==
  \A pid \in DOMAIN executions :
    LET e == executions[pid] IN
    /\ \A i, j \in 1..Len(e) :
         (i < j /\ ~e[i].is_rollback /\ ~e[j].is_rollback
            /\ e[i].success /\ e[j].success)
           => <<e[i].sliceIndex, e[i].legIndex>> # <<e[j].sliceIndex, e[j].legIndex>>
    /\ progress[pid].state = "completed"
         => progress[pid].slicesDone = progress[pid].slicesTotal

\* C4: while a plan is not RUNNING (paused or cancelled during the inter-slice
\* sleep) no leg order is placed or recorded for it; a pause that is accepted
\* leaves the plan PAUSED; a pause of a PAUSED plan returns true and changes
\* nothing.
C4_PauseStopsNextSlice ==
  [][\A pid \in PlanIds :
       /\ (pid \in DOMAIN progress /\ progress[pid].state # "running")
            => /\ LegOrderCount(pid)' = LegOrderCount(pid)
               /\ LegRecCount(pid)' = LegRecCount(pid)
       /\ (TwapPausePlan(pid) /\ PausePlanResult(pid))
            => progress'[pid].state = "paused"
       /\ (TwapPausePlan(pid) /\ pid \in DOMAIN progress
             /\ progress[pid].state = "paused")
            => PausePlanResult(pid) /\ UNCHANGED twapVars
    ]_vars

\* C4 witness: the plan was paused during the sleep after its first slice, the
\* cancelled task has ended, and slices remain.
C4_Witness ==
  /\ twapCur = 0
  /\ \E pid \in DOMAIN progress :
       /\ progress[pid].state = "paused"
       /\ progress[pid].slicesDone = 1
       /\ progress[pid].slicesDone < progress[pid].slicesTotal
       /\ LegOrderCount(pid) = Len(plans[pid].legs)
       /\ \A t \in DOMAIN tasks : tasks[t].pc = "done"

\* The edges C5 allows
AllowedEdges ==
  { <<"pending", "running">>, <<"running", "paused">>, <<"paused", "running">>,
    <<"running", "completed">>, <<"running", "cancelled">>, <<"running", "failed">>,
    <<"pending", "cancelled">>, <<"paused", "cancelled">> }

\* C5 (as claimed): a plan's state changes only along the allowed edges; a
\* terminal state is never left.
C5_StateMachine ==
  [][\A pid \in DOMAIN progress \cap DOMAIN progress' :
       \/ progress'[pid].state = progress[pid].state
       \/ <<progress[pid].state, progress'[pid].state>> \in AllowedEdges
    ]_vars

\* C6 (as claimed): a control call from an invalid source state, or on an
\* unknown plan id, returns false and changes nothing.
C6_InvalidCallsAreNoOps ==
  [][\A pid \in AllIds :
       LET known == pid \in DOMAIN progress
           st == IF known THEN progress[pid].state ELSE "none"
       IN
       /\ (TwapStartPlan(pid) /\ st # "pending")
            => ~StartPlanResult(pid) /\ UNCHANGED twapVars
       /\ (TwapPausePlan(pid) /\ st \notin {"running", "paused"})
            => ~PausePlanResult(pid) /\ UNCHANGED twapVars
       /\ (TwapResumePlan(pid) /\ st # "paused")
            => ~ResumePlanResult(pid) /\ UNCHANGED twapVars
       /\ (TwapCancelPlan(pid) /\ (~known \/ st \in TerminalStates))
            => ~CancelPlanResult(pid) /\ UNCHANGED twapVars
    ]_vars

(***************************************************************************)
(* Claims about the arbitrage engine                                       *)
(***************************************************************************)
\* the steps of _execute_arbitrage after the pair was marked in-flight
ExecPhases == {"leg1", "leg2", "exec_rollback", "exec_success", "exec_finally"}

\* the pair ids still to be visited by the tick in progress
TodoIds == {tick.todo[i].id : i \in DOMAIN tick.todo}

\* C2: when leg1's order succeeded and leg2's failed, the execution ends with
\* exactly three _place_order calls: leg1's, leg2's, and after them one
\* compensating order for leg1's exchange, symbol and type, with the opposite
\* side and the same quantity; whether that order succeeded or not, the
\* execution counters and the execution history are what they were before.
C2_Leg2FailureRollsBackLeg1 ==
  (tick.pc = "exec_finally" /\ tick.leg1_result.success /\ ~tick.leg2_result.success)
    => /\ Len(execOrders) = 3
       /\ execOrders[1].leg = tick.cfg.leg1 /\ execOrders[1].ok
       /\ execOrders[2].leg = tick.cfg.leg2 /\ ~execOrders[2].ok
       /\ LET o == execOrders[1]
              r == execOrders[3]
          IN /\ r.leg.exchange = o.leg.exchange
             /\ r.leg.symbol = o.leg.symbol
             /\ r.leg.type = o.leg.type
             /\ r.category = o.category
             /\ r.qty = o.qty /\ r.qty = tick.cfg.qty
             /\ <<o.side, r.side>> \in { <<"Buy", "Sell">>, <<"Sell", "Buy">> }
       /\ executions_count = snap.count
       /\ executions_history = snap.history

\* C2 witness: leg1 succeeded, leg2 failed and the compensating order failed too.
C2_Witness ==
  /\ tick.pc = "exec_finally"
  /\ tick.leg1_result.success /\ ~tick.leg2_result.success
  /\ Len(execOrders) = 3 /\ ~execOrders[3].ok

\* The trigger condition of C7, on the configuration the tick iterates and
\* the prices it read
TriggerCondition ==
  LET c == tick.cfg
      leg1Exec == IF c.leg1.side = "buy" THEN tick.leg1_ask ELSE tick.leg1_bid
      leg2Exec == IF c.leg2.side = "buy" THEN tick.leg2_ask ELSE tick.leg2_bid
  IN /\ c.enabled
     /\ leg1Exec > 0 /\ leg2Exec > 0
     /\ (leg2Exec - leg1Exec) * 100 >= c.threshold * leg1Exec
     /\ CountOf(executions_count, tick.pair_id) < c.max_execs
     /\ tick.pair_id \notin executing_pairs

C9_NoConcurrentExecution ==
  /\ \A i, j \in DOMAIN tick.fired : i # j => tick.fired[i] # tick.fired[j]
  /\ tick.pair_id # "none" =>
       (tick.started <=> (\E i \in DOMAIN tick.fired : tick.fired[i] = tick.pair_id))
  /\ executing_pairs \subseteq {tick.pair_id}
  /\ executing_pairs # {} => (arbCur /\ tick.pc \in ExecPhases)
  /\ tick.pc \in {"leg1", "leg2", "exec_rollback", "exec_success"}
       => tick.pair_id \in executing_pairs
  /\ tick.pc = "exec_start" => tick.pair_id \notin executing_pairs

\* C9 witness: the second pair fired in a tick is in-flight, between its two
\* orders.
C9_Witness ==
  /\ tick.pc = "leg2"
  /\ executing_pairs = {tick.pair_id}
  /\ Len(tick.fired) = 2

\* C10: the first order of an execution is leg1's; a second order is placed
\* only after leg1's succeeded and is leg2's; when leg1's order failed the
\* execution ends with that one order only, and pairs, counters and history are
\* what they were when it began.
C10_Leg1FailureAborts ==
  /\ Len(execOrders) >= 1 =>
       /\ execOrders[1].leg = tick.cfg.leg1
       /\ execOrders[1].qty = tick.cfg.qty
  /\ Len(execOrders) >= 2 =>
       /\ execOrders[1].ok
       /\ execOrders[2].leg = tick.cfg.leg2
       /\ execOrders[2].qty = tick.cfg.qty
  /\ (tick.pc = "exec_finally" /\ ~tick.leg1_result.success)
       => /\ Len(execOrders) = 1
          /\ ~execOrders[1].ok
          /\ pairs = snap.pairs
          /\ executions_count = snap.count
          /\ executions_history = snap.history

\* C10 witness: leg1's order failed and the pair is still monitored.
C10_Witness ==
  /\ tick.pc = "exec_finally"
  /\ ~tick.leg1_result.success
  /\ Len(execOrders) = 1
  /\ tick.pair_id \in DOMAIN pairs

(***************************************************************************)
(* Claims about the order book                                             *)
(***************************************************************************)
\* the prices a list of levels names
ListedPrices(levels) == {ParseFloat(levels[i][1]) : i \in DOMAIN levels}

\* the quantity of the last entry of a list for a price
LastQty(levels, price) ==
  LET at == {i \in DOMAIN levels : ParseFloat(levels[i][1]) = price}
      last == CHOOSE i \in at : \A j \in at : j <= i
  IN ParseFloat(levels[last][2])

\* the quantity of the last entry of a list for a price that has a quantity > 0
LastPositiveQty(levels, price) ==
  LET at == {i \in DOMAIN levels :
               ParseFloat(levels[i][1]) = price /\ ParseFloat(levels[i][2]) > 0}
      last == CHOOSE i \in at : \A j \in at : j <= i
  IN ParseFloat(levels[last][2])

\* kept holds the n best levels of side; better(p, q) is the order of the side
KeepsBest(kept, side, n, bidSide) ==
  /\ DOMAIN kept \subseteq DOMAIN side
  /\ \A p \in DOMAIN kept : kept[p] = side[p]
  /\ Cardinality(DOMAIN kept) =
       IF Cardinality(DOMAIN side) < n THEN Cardinality(DOMAIN side) ELSE n
  /\ \A p \in DOMAIN kept : \A q \in DOMAIN side \ DOMAIN kept :
       IF bidSide THEN p > q ELSE p < q

\* the sides of orderbook as the last application left them before _trim
LastUntrimmed ==
  IF lastApply.op = "delta"
    THEN DeltaUntrimmed(lastApply.prior, lastApply.bids, lastApply.asks, orderbook.u)
    ELSE SnapshotUntrimmed(lastApply.prior, lastApply.bids, lastApply.asks, orderbook.u)

\* the books the model holds: the instance and the books of the feed
AllBooks == {orderbook} \cup {books[k] : k \in DOMAIN books}

\* C11: in every state reached by snapshot and delta applications every
\* stored level has a quantity > 0 and each side holds at most depth levels.
C11_PositiveAndBounded ==
  \A b \in AllBooks :
    /\ \A p \in DOMAIN b.bids : b.bids[p] > 0
    /\ \A p \in DOMAIN b.asks : b.asks[p] > 0
    /\ Cardinality(DOMAIN b.bids) <= b.depth
    /\ Cardinality(DOMAIN b.asks) <= b.depth

\* C11 witness: a delta left three ask levels in a book of depth 2 before the
\* trim, and the message named a quantity <= 0.
C11_Witness ==
  /\ lastApply.op = "delta"
  /\ orderbook.depth = 2
  /\ Cardinality(DOMAIN LastUntrimmed.asks) = 3
  /\ \E i \in DOMAIN lastApply.asks : ParseFloat(lastApply.asks[i][2]) <= 0

\* C12: after an application the bids are the depth highest-priced and the
\* asks the depth lowest-priced levels of the side before the trim;
\* best_bid_ask gives the greatest bid price and the least ask price, None
\* for an empty side; get_top_of_book gives (None, None) for a key without book.
C12_TrimKeepsBest ==
  /\ lastApply.op # "none" =>
       /\ KeepsBest(orderbook.bids, LastUntrimmed.bids, orderbook.depth, TRUE)
       /\ KeepsBest(orderbook.asks, LastUntrimmed.asks, orderbook.depth, FALSE)
  /\ LET best == BestBidAsk(orderbook)
     IN /\ IF DOMAIN orderbook.bids = {} THEN best[1] = None
           ELSE /\ best[1] \in DOMAIN orderbook.bids
                /\ \A p \in DOMAIN orderbook.bids : p <= best[1]
        /\ IF DOMAIN orderbook.asks = {} THEN best[2] = None
           ELSE /\ best[2] \in DOMAIN orderbook.asks
                /\ \A p \in DOMAIN orderbook.asks : p >= best[2]
  /\ \A category \in {"spot", "linear"}, symbol \in FeedSymbols, depth \in Depths :
       <<category, symbol, depth>> \notin DOMAIN books
         => GetTopOfBook(category, symbol, depth) = <<None, None>>

\* C12 witness: a depth-1 book after a snapshot with bids 100 and 99 and an
\* ask at 101 answers (100, 101).
C12_Witness ==
  /\ orderbook.depth = 1
  /\ lastApply.op = "snapshot"
  /\ lastApply.bids = << <<"100", "1">>, <<"99", "1">> >>
  /\ BestBidAsk(orderbook) = <<100, 101>>
  /\ <<"spot", "BTCUSDT", 1>> \in DOMAIN books

\* C13 (as claimed): the top of the trimmed book is the top of the book the
\* same messages describe when no level is ever trimmed.
C13_TopOfBookIsCurrent == BestBidAsk(orderbook) = BestBidAsk(fullBook)

\* C14: after a delta, a side is (up to the trim) the side before with every
\* listed price removed whose quantity is <= 0, every listed price set whose
\* quantity is > 0 (the last entry of a price decides), and every other level
\* as it was; a delta (100, 0) on the only bid level 100 of a depth-1 book
\* leaves no bid, and best_bid_ask answers (None, ask).
C14_DeltaMerges ==
  lastApply.op = "delta" =>
    LET Merged(side, levels) ==
          LET prices == {p \in DOMAIN side \cup ListedPrices(levels) :
                           IF p \in ListedPrices(levels) THEN LastQty(levels, p) > 0
                           ELSE TRUE}
          IN [p \in prices |-> IF p \in ListedPrices(levels) THEN LastQty(levels, p)
                               ELSE side[p]]
    IN /\ KeepsBest(orderbook.bids, Merged(lastApply.prior.bids, lastApply.bids),
                    orderbook.depth, TRUE)
       /\ KeepsBest(orderbook.asks, Merged(lastApply.prior.asks, lastApply.asks),
                    orderbook.depth, FALSE)
       /\ (/\ orderbook.depth = 1
           /\ DOMAIN lastApply.prior.bids = {100}
           /\ lastApply.bids = << <<"100", "0">> >>)
            => /\ DOMAIN orderbook.bids = {}
               /\ BestBidAsk(orderbook) = <<None, BestBidAsk(lastApply.prior)[2]>>

\* C14 witness: the delta (100, 0) on a depth-1 book whose only bid is 100 and
\* that has an ask.
C14_Witness ==
  /\ lastApply.op = "delta"
  /\ orderbook.depth = 1
  /\ DOMAIN lastApply.prior.bids = {100}
  /\ lastApply.bids = << <<"100", "0">> >>
  /\ BestBidAsk(orderbook) = <<None, 101>>

\* C15: after a snapshot the book holds, per side, the best depth levels among
\* the listed levels with a quantity > 0 and nothing else, whatever it held
\* before: it equals the result of the same snapshot on a new book, and
\* applying the snapshot once more changes nothing.
C15_SnapshotReplaces ==
  lastApply.op = "snapshot" =>
    LET Listed(levels) ==
          LET prices == {p \in ListedPrices(levels) :
                           \E i \in DOMAIN levels :
                             /\ ParseFloat(levels[i][1]) = p
                             /\ ParseFloat(levels[i][2]) > 0}
          IN [p \in prices |-> LastPositiveQty(levels, p)]
    IN /\ KeepsBest(orderbook.bids, Listed(lastApply.bids), orderbook.depth, TRUE)
       /\ KeepsBest(orderbook.asks, Listed(lastApply.asks), orderbook.depth, FALSE)
       /\ orderbook = ApplySnapshot(NewBook(orderbook.depth), lastApply.bids,
                                    lastApply.asks, orderbook.u)
       /\ orderbook = ApplySnapshot(orderbook, lastApply.bids, lastApply.asks,
                                    orderbook.u)

\* C15 witness: a snapshot without bids but with an ask was applied to a book
\* that held a bid.
C15_Witness ==
  /\ lastApply.op = "snapshot"
  /\ DOMAIN lastApply.prior.bids # {}
  /\ lastApply.bids = <<>>
  /\ DOMAIN orderbook.bids = {}
  /\ DOMAIN orderbook.asks # {}

(***************************************************************************)
(* TWAP progress accounting and termination                                *)
(***************************************************************************)
\* Runs of a slice in which every leg succeeded: legs are placed in order and
\* the first failure leaves the slice, so the last leg succeeds only then.
FullSlices(pid) ==
  Len(SelectSeq(executions[pid],
                LAMBDA e : /\ ~e.is_rollback
                           /\ e.success
                           /\ e.legIndex = Len(plans[pid].legs) - 1))

\* C16: whenever no task holds the loop (every task sleeps between two slices,
\* has ended or has not begun), each plan has executed = sliceQty times the
\* number of slices whose legs all succeeded, and remaining = totalQty -
\* executed.
C16_ExecutedCountsFullSlices ==
  twapCur = 0 =>
    \A pid \in DOMAIN plans :
      /\ progress[pid].executed = plans[pid].sliceQty * FullSlices(pid)
      /\ progress[pid].remaining = plans[pid].totalQty - progress[pid].executed

\* C17: from the moment a failed leg order has terminated a plan until its task
\* has ended, the plan is FAILED exactly when the error was an authorization
\* error and CANCELLED otherwise; it is never RUNNING, PAUSED or COMPLETED.
C17_FailureStateByError ==
  [][\A t \in DOMAIN tasks' :
       LET pid == tasks'[t].plan IN
       /\ tasks'[t].slice_failed =>
            /\ progress'[pid].state \in {"failed", "cancelled"}
            /\ progress'[pid].state = "failed" <=> tasks'[t].err = "auth"
       /\ (t \in DOMAIN tasks /\ tasks[t].slice_failed) =>
            /\ progress'[pid].state \in {"failed", "cancelled"}
            /\ progress'[pid].state = "failed" <=> tasks[t].err = "auth"]_vars

\* C17 witness: the second leg of a slice was refused for an authorization
\* error, the first leg was rolled back, the task has ended and the plan is
\* FAILED.
C17_Witness ==
  /\ twapCur = 0
  /\ "p1" \in DOMAIN executions
  /\ \E i \in 1..Len(executions["p1"]) :
       /\ ~executions["p1"][i].is_rollback
       /\ executions["p1"][i].error = "auth"
       /\ executions["p1"][i].legIndex = 1
  /\ \A t \in DOMAIN tasks : tasks[t].pc = "done"
  /\ Len(tasks) = 1
  /\ progress["p1"].state = "failed"

\* C17 witness for the other errors: the plan is CANCELLED
C17_WitnessCancelled ==
  /\ twapCur = 0
  /\ "p1" \in DOMAIN executions
  /\ \E i \in 1..Len(executions["p1"]) :
       /\ ~executions["p1"][i].is_rollback
       /\ executions["p1"][i].error = "fail"
  /\ \A t \in DOMAIN tasks : tasks[t].pc = "done"
  /\ Len(tasks) = 1
  /\ progress["p1"].state = "cancelled"

\* C18: once a leg order has failed in slice N after an earlier leg of that
\* slice succeeded and the task has given the loop back, the plan has
\* slicesDone = N + 1, in this and in every later state.
C18_FailedSliceCounted ==
  twapCur = 0 =>
    \A pid \in DOMAIN executions :
      \A i \in 1..Len(executions[pid]) :
        LET e == executions[pid][i] IN
        (~e.is_rollback /\ ~e.success /\ e.legIndex > 0) =>
          progress[pid].slicesDone = e.sliceIndex + 1

\* C18 witness: the second leg failed in slice 1 and the task has ended;
\* slicesDone is 2.
C18_Witness ==
  /\ twapCur = 0
  /\ "p1" \in DOMAIN executions
  /\ \E i \in 1..Len(executions["p1"]) :
       LET e == executions["p1"][i] IN
       ~e.is_rollback /\ ~e.success /\ e.legIndex = 1 /\ e.sliceIndex = 1
  /\ \A t \in DOMAIN tasks : tasks[t].pc = "done"
  /\ progress["p1"].slicesDone = 2

\* C19: when the very first order of a started plan (slice 0, leg 0) was
\* refused for a reason other than authorization and the task has given the
\* loop back, the plan is CANCELLED with slicesDone = 0.
C19_FirstOrderFailureCountsNoSlice ==
  twapCur = 0 =>
    \A pid \in DOMAIN executions :
      (/\ Len(executions[pid]) >= 1
       /\ ~executions[pid][1].success
       /\ executions[pid][1].error = "fail") =>
        /\ progress[pid].state = "cancelled"
        /\ progress[pid].slicesDone = 0

\* What the code does in the case of C19: CANCELLED, with slice 0 counted
C19_FirstOrderFailureCancels ==
  twapCur = 0 =>
    \A pid \in DOMAIN executions :
      (/\ Len(executions[pid]) >= 1
       /\ ~executions[pid][1].success
       /\ executions[pid][1].error = "fail") =>
        /\ progress[pid].state = "cancelled"
        /\ progress[pid].slicesDone = 1

\* The plan was started once and its task is the only one ever created for it
StartedOnce(pid) ==
  /\ pid \in DOMAIN progress
  /\ progress[pid].state = "running"
  /\ Cardinality({t \in DOMAIN tasks : tasks[t].plan = pid}) = 1

\* An order failed (CANCELLED or FAILED), or pause_plan or cancel_plan acted
Interrupted(pid) ==
  /\ pid \in DOMAIN progress
  /\ progress[pid].state \in {"paused", "cancelled", "failed"}

\* COMPLETED, every slice counted, one order per leg and slice, no task registered
CompletedInFull(pid) ==
  /\ pid \in DOMAIN progress
  /\ progress[pid].state = "completed"
  /\ progress[pid].slicesDone = progress[pid].slicesTotal
  /\ Len(PlanOrders(pid)) = progress[pid].slicesTotal * Len(plans[pid].legs)
  /\ LegOrderCount(pid) = Len(PlanOrders(pid))
  /\ pid \notin DOMAIN running_tasks

\* C20: a plan that was started reaches COMPLETED with slicesDone =
\* slicesTotal, exactly slicesTotal x (number of legs) orders placed and no task
\* registered, unless an order fails or a pause or a cancel is issued first.
C20_StartedPlanCompletes ==
  \A pid \in PlanIds :
    StartedOnce(pid) ~> (CompletedInFull(pid) \/ Interrupted(pid))

\* C20 witness: a two-leg plan of two slices completed: four orders, both
\* slices counted, no task registered.
C20_Witness ==
  /\ CompletedInFull("p1")
  /\ progress["p1"].slicesTotal = 2
  /\ Len(plans["p1"].legs) = 2
  /\ Len(twapOrders) = 4
  /\ Len(tasks) = 1

(***************************************************************************)
(* Claims about the administrative calls of the TWAP engine                *)
(***************************************************************************)
\* The positions, in the history of a plan, of the records that are successful
\* and not rollbacks
SuccessPositions(pid) ==
  {i \in 1..Len(executions[pid]) :
     executions[pid][i].success /\ ~executions[pid][i].is_rollback}

\* The k-th smallest member of a set of positions
Nth(S, k) == CHOOSE i \in S : Cardinality({j \in S : j < i}) = k - 1

\* C21: one emergency_rollback call on a known plan places, for each record of
\* the history that is successful and not a rollback, in whatever slice, one
\* order on the record's leg with the opposite side and quantity sliceQty,
\* appends one rollback record naming the record's order, and leaves plans,
\* progress and tasks as they were; on an unknown plan id it returns false and
\* changes nothing.
C21_EmergencyRollbackAll ==
  [][\A pid \in AllIds, pattern \in RollbackPatterns :
       TwapEmergencyRollback(pid, pattern) =>
         IF pid \notin DOMAIN plans
           THEN ~EmergencyRollbackResult(pid) /\ UNCHANGED twapVars
           ELSE
             LET S == SuccessPositions(pid)
                 n == Cardinality(S)
                 e == executions[pid]
                 lo == Len(twapOrders)
                 le == Len(e)
             IN
             /\ EmergencyRollbackResult(pid)
             /\ UNCHANGED <<plans, progress, running_tasks, tasks>>
             /\ Len(twapOrders') = lo + n
             /\ SubSeq(twapOrders', 1, lo) = twapOrders
             /\ Len(executions'[pid]) = le + n
             /\ SubSeq(executions'[pid], 1, le) = e
             /\ \A k \in 1..n :
                  LET orig == e[Nth(S, k)]
                      leg == plans[pid].legs[orig.legIndex + 1]
                      o == twapOrders'[lo + k]
                      r == executions'[pid][le + k]
                  IN
                  /\ o.plan = pid /\ o.rollback
                  /\ o.symbol = leg.symbol /\ o.category = leg.category
                  /\ o.side = IF leg.side = "buy" THEN "Sell" ELSE "Buy"
                  /\ o.qty = plans[pid].sliceQty
                  /\ r.is_rollback
                  /\ r.legIndex = orig.legIndex
                  /\ r.original_order_id = orig.orderId
                  /\ r.qty = plans[pid].sliceQty
                  /\ r.success = o.ok
    ]_vars

\* C21 witness: an emergency rollback has been run on a history with
\* successful orders in slice 0 and in slice 1; both were rolled back.
C21_Witness ==
  /\ "p1" \in DOMAIN executions
  /\ LET e == executions["p1"] IN
     \E i, j, k, l \in 1..Len(e) :
       /\ e[i].success /\ ~e[i].is_rollback /\ e[i].sliceIndex = 0
       /\ e[j].success /\ ~e[j].is_rollback /\ e[j].sliceIndex = 1
       /\ e[k].is_rollback /\ e[k].sliceIndex = EmergencySlice
       /\ e[k].original_order_id = e[i].orderId
       /\ e[l].is_rollback /\ e[l].sliceIndex = EmergencySlice
       /\ e[l].original_order_id = e[j].orderId

\* C22: a clear_all_data call leaves plans, progress, executions and
\* _running_tasks empty, and no task made before it places an order afterwards:
\* every order that is placed is for a plan that is in plans.
C22_ClearStopsEverything ==
  [][/\ TwapClearAllData =>
          /\ plans' = <<>> /\ progress' = <<>>
          /\ executions' = <<>> /\ running_tasks' = <<>>
     /\ Len(twapOrders') > Len(twapOrders) =>
          twapOrders'[Len(twapOrders')].plan \in DOMAIN plans
    ]_vars

\* The first half of C22 alone: the four dicts are empty after the call
C22_ClearEmptiesDicts ==
  [][TwapClearAllData =>
          /\ plans' = <<>> /\ progress' = <<>>
          /\ executions' = <<>> /\ running_tasks' = <<>>
    ]_vars

\* A task that holds a RUNNING progress object outside the dicts got it from
\* clear_all_data: its plan id is in none of the dicts
OrphanHoldsRunningOnlyWhenCleared ==
  \A t \in DOMAIN tasks :
    (tasks[t].pc = "orphan_sleeping" /\ tasks[t].held.state = "running")
      => tasks[t].plan \notin DOMAIN executions

\* The arbitrage half of C22: no pairs, counters, history or in-flight marks
\* after the call
C22_ArbCleared ==
  [][ArbClearAllData =>
        /\ pairs' = <<>> /\ executions_count' = <<>>
        /\ executions_history' = <<>> /\ executing_pairs' = {}
    ]_vars

\* C23: a delete or update request for a plan that is RUNNING or PAUSED is
\* rejected and changes no plan, progress, execution record, registration or
\* task; for a plan that is PENDING, COMPLETED, CANCELLED or FAILED it is
\* accepted: delete removes the plan with its progress and executions, update
\* leaves progress PENDING with executed = 0, slicesDone = 0 and no execution
\* record.
C23_DeleteUpdateOnlyWhenIdle ==
  [][\A pid \in PlanIds :
       pid \in DOMAIN plans =>
         LET busy == progress[pid].state \in {"running", "paused"}
             idle == progress[pid].state \in
                       {"pending", "completed", "cancelled", "failed"}
         IN
         /\ (TwapDeletePlan(pid) /\ busy) =>
              ~RouteAccepts(pid) /\ UNCHANGED twapVars
         /\ (TwapDeletePlan(pid) /\ idle) =>
              /\ RouteAccepts(pid)
              /\ pid \notin DOMAIN plans'
              /\ pid \notin DOMAIN progress'
              /\ pid \notin DOMAIN executions'
         /\ \A totalQty \in AdminTotalQtys, sliceQty \in SliceQtys,
               legs \in UpdateLegSeqs :
              /\ (TwapUpdatePlan(pid, totalQty, sliceQty, legs) /\ busy) =>
                   ~RouteAccepts(pid) /\ UNCHANGED twapVars
              /\ (TwapUpdatePlan(pid, totalQty, sliceQty, legs) /\ idle) =>
                   /\ RouteAccepts(pid)
                   /\ plans'[pid].totalQty = totalQty
                   /\ plans'[pid].sliceQty = sliceQty
                   /\ plans'[pid].legs = legs
                   /\ progress'[pid].state = "pending"
                   /\ progress'[pid].executed = 0
                   /\ progress'[pid].remaining = totalQty
                   /\ progress'[pid].slicesDone = 0
                   /\ executions'[pid] = <<>>
    ]_vars

\* C23 witness: a plan that had run and ended was updated: it is PENDING again
\* with the legs of the update, nothing executed and no execution record.
C23_Witness ==
  /\ "p1" \in DOMAIN plans
  /\ plans["p1"].legs = <<PerpSell>>
  /\ progress["p1"].state = "pending"
  /\ progress["p1"].executed = 0
  /\ executions["p1"] = <<>>
  /\ twapOrders # <<>>
  /\ \E t \in DOMAIN tasks : tasks[t].pc = "done"

(***************************************************************************)
(* Claims about the lifecycle of the arbitrage engine                      *)
(***************************************************************************)
\* C24: after start() on a stopped engine every pair that is enabled in the
\* monitoring configuration is among the engine's pairs, and no disabled pair
\* was added.
C24_StartLoadsEnabledPairs ==
  [][(ArbStartLoad /\ ~arbRunning) =>
       \A id \in DOMAIN monitoring_pairs :
         /\ monitoring_pairs[id].enabled => id \in DOMAIN pairs'
         /\ (~monitoring_pairs[id].enabled /\ id \notin DOMAIN pairs)
              => id \notin DOMAIN pairs'
    ]_vars

\* What start() does to the pairs: nothing
C24_StartLoadsNothing ==
  [][ArbStartLoad => UNCHANGED <<pairs, pairOrder>>]_vars

\* C25: a start() call while the engine is running creates no loop task and
\* leaves the pairs and the counters as they were, and in every state at most
\* one loop task is alive and will run another tick.
C25_OneLoopTask == Cardinality(TickingLoops) <= 1

\* C25, the first half alone: start() while running changes nothing
C25_StartWhileRunningIsNoOp ==
  [][LifeStart /\ arbRunning => UNCHANGED <<arbVars, monVars, loops, task_ref, stopping>>]_vars

\* C26: once a stop() call has returned with the engine stopped, no loop task
\* runs a statement of a tick (and so none places an order) until the next
\* start() call.
C26_NoTickAfterStop == [][TickRuns => ~quiet]_vars

\* C26, the parts about the stop() call itself: it sets _running to False, the
\* registered task is cancelled or has ended, and the call returns (quiet
\* becomes true, or a suspended call resumes) only when that task has ended.
C26_StopCancelsAndAwaits ==
  [][/\ LifeStopBegin =>
          /\ ~arbRunning'
          /\ task_ref # NoTask =>
               /\ loops'[task_ref].cancelled \/ loops'[task_ref].pc = "done"
               /\ task_ref' = NoTask => loops[task_ref].pc = "done"
     /\ \A i \in LoopTaskIds : LifeStopEnd(i) => loops[i].pc = "done"]_vars

\* C27: an upsert of a pair id that has executions leaves the pair with an
\* executions count of 0 and an empty execution history.
C27_UpsertResetsCounters ==
  [][\A pair_id \in PairIds, config \in PairConfigs :
       /\ ArbUpsertPair(pair_id, config)
       /\ HistoryOf(executions_history, pair_id) # <<>>
       => /\ executions_count'[pair_id] = 0
          /\ HistoryOf(executions_history', pair_id) = <<>>]_vars

\* C27, what the upsert does reset: the executions count, never the history
C27_UpsertResetsCountOnly ==
  [][\A pair_id \in PairIds, config \in PairConfigs :
       ArbUpsertPair(pair_id, config)
       => /\ executions_count'[pair_id] = 0
          /\ executions_history' = executions_history]_vars

(***************************************************************************)
(* Claims about the tasks of a plan and about the slices they leave        *)
(***************************************************************************)

\* the tasks of a plan that have not ended and that no cancel() reached: each
\* goes on with _execute_twap when the loop runs it
LiveTasks(pid) ==
  {t \in DOMAIN tasks :
     tasks[t].plan = pid /\ tasks[t].pc # "done" /\ ~tasks[t].cancelled}

\* C28: in every reachable state, every plan has at most one execution task
\* that is alive and able to place further orders.
C28_OneLiveTaskPerPlan ==
  \A pid \in DOMAIN plans :
    progress[pid].state = "running" => Cardinality(LiveTasks(pid)) <= 1

\* the records of a plan's successful orders of one slice, rollbacks left out
SliceSuccesses(pid, s) ==
  {i \in 1..Len(executions[pid]) :
     /\ executions[pid][i].success
     /\ ~executions[pid][i].is_rollback
     /\ executions[pid][i].sliceIndex = s}

\* the successful order of record i has a rollback record
RolledBack(pid, i) ==
  \E j \in 1..Len(executions[pid]) :
    /\ executions[pid][j].is_rollback
    /\ executions[pid][j].sliceIndex = executions[pid][i].sliceIndex
    /\ executions[pid][j].legIndex = executions[pid][i].legIndex
    /\ executions[pid][j].original_order_id = executions[pid][i].orderId

\* the successful orders of leg l in slice s that no rollback record names
Unrolled(pid, s, l) ==
  {i \in SliceSuccesses(pid, s) :
     executions[pid][i].legIndex = l /\ ~RolledBack(pid, i)}

\* the slices of a plan that some task started
StartedSlices(pid) ==
  {executions[pid][i].sliceIndex : i \in 1..Len(executions[pid])}

\* C29: when a plan is PAUSED, CANCELLED, FAILED or COMPLETED, every slice that
\* was started has a successful order for every leg or a rollback record for
\* each of its successful legs; the orders left without a rollback are as many
\* for one leg as for any other.
C29_NoDanglingSlice ==
  \A pid \in DOMAIN plans :
    progress[pid].state \in {"paused", "cancelled", "failed", "completed"} =>
      \A s \in StartedSlices(pid) :
        LET legIdx == 0..(Len(plans[pid].legs) - 1) IN
        /\ \/ \A l \in legIdx :
                \E i \in SliceSuccesses(pid, s) : executions[pid][i].legIndex = l
           \/ \A i \in SliceSuccesses(pid, s) : RolledBack(pid, i)
        /\ \A l1, l2 \in legIdx :
             Cardinality(Unrolled(pid, s, l1)) = Cardinality(Unrolled(pid, s, l2))

\* a plan ended by the failure of the second leg of a slice whose first leg
\* had succeeded, and a plan paused after whole slices of two legs
C29_Witness ==
  /\ twapCur = 0
  /\ \E pid \in DOMAIN plans :
       /\ progress[pid].state \in {"cancelled", "failed"}
       /\ Len(plans[pid].legs) = 2
       /\ \E i \in 1..Len(executions[pid]) :
            executions[pid][i].success /\ ~executions[pid][i].is_rollback
            /\ RolledBack(pid, i)

C29_WitnessPaused ==
  /\ twapCur = 0
  /\ \E pid \in DOMAIN plans :
       /\ progress[pid].state = "paused"
       /\ Len(plans[pid].legs) = 2
       /\ SliceSuccesses(pid, 0) # {}

(***************************************************************************)
(* Claims about the in-flight mark of an execution                         *)
(***************************************************************************)

\* where _execute_arbitrage is between the mark and the end of its finally
InExecution ==
  tick.pc \in {"leg1", "leg2", "exec_rollback", "exec_success", "exec_finally"}

\* C30: whenever an execution attempt for a pair has ended (leg1 failed, leg2
\* failed and leg1 was rolled back, both legs succeeded with or without the
\* removal of the pair, or a statement raised), the pair is not marked
\* in-flight: outside an execution no pair is marked.
C30_MarkDroppedAtEnd == ~InExecution => executing_pairs = {}

\* C30, as a step: the finally that ends an execution leaves its pair unmarked
C30_FinallyDropsMark ==
  [][ExecFinally => tick.pair_id \notin executing_pairs']_vars

\* an execution of a pair has ended in this tick, and the pair is still there
C30_Witness ==
  /\ tick.pc = "next"
  /\ tick.started
  /\ tick.pair_id \in DOMAIN pairs
  /\ tick.pair_id \notin executing_pairs

\* an execution ended with the removal of its pair
C30_WitnessRemoved ==
  /\ tick.pc = "next"
  /\ tick.started
  /\ tick.pair_id \in retired
  /\ tick.pair_id \notin executing_pairs

\* a statement raised before any order was placed, and the finally is next
C30_WitnessRaised ==
  /\ tick.pc = "exec_finally"
  /\ execOrders = <<>>

(***************************************************************************)
(* Claims about the quota of a pair and about errors in a tick             *)
(***************************************************************************)

\* C31: for every pair, in every reachable state, the number of successful
\* two-leg executions since the pair was last upserted (the engine's count of
\* the pair) is at most the max_execs of the pair's configuration.
C31_CountWithinQuota ==
  \A pair_id \in DOMAIN pairs :
    CountOf(executions_count, pair_id) <= pairs[pair_id].max_execs

\* C31, as the engine enforces it: an execution is only entered for a pair
\* whose count is below the max_execs of the configuration the tick holds
C31_ExecutionBelowQuota ==
  [][ExecStart => CountOf(executions_count, tick.pair_id) < tick.cfg.max_execs]_vars

\* an error raised while one pair is evaluated or executed
PairRaises == TickFetchRaise \/ ExecRaise

\* C32: an error raised while one pair is evaluated or executed is caught: the
\* pairs left in this tick are still there to be evaluated, the tick goes on
\* (to the next pair, or through the finally of the execution) and _running
\* stays true; an error that escapes the tick ends the loop and sets _running
\* to False.
C32_PairErrorIsCaught ==
  [][/\ PairRaises =>
          /\ arbRunning' = arbRunning
          /\ tick'.todo = tick.todo
          /\ tick'.pc \in {"next", "exec_finally"}
     /\ LoopRaise => ~arbRunning' /\ tick'.pc = "off"]_vars

\* C32, for the pairs left: in a tick every pair of the list taken at its
\* start is reached by the loop unless the loop task is stopped or an error
\* escapes the tick; no step of a tick other than the head of the for loop
\* shortens the list
C32_OnlyLoopHeadShortensList ==
  [][tick'.todo # tick.todo =>
       TickBegin \/ TickNext \/ LoopRaise \/ ArbStop \/ ArbClearAllData
       \/ \E pair_id \in PairIds, config \in PairConfigs :
            ArbUpsertPair(pair_id, config)]_vars

\* an error was raised in the execution of a pair while an enabled pair is
\* left in this tick
C32_Witness ==
  /\ arbRunning
  /\ tick.pc = "exec_finally"
  /\ execOrders = <<>>
  /\ tick.todo # <<>>
  /\ Head(tick.todo).cfg.enabled

(***************************************************************************)
(* Claims about the messages of the streaming feed                         *)
(***************************************************************************)

\* C33: every snapshot message and every delta message delivered for a
\* subscribed key updates the book of the key: after a snapshot the book is
\* the snapshot (replacement), after a delta it is the book before with the
\* delta merged into it.
C33_EveryMessageUpdatesBook ==
  lastApply # NoApply =>
    books[lastApply.key] =
      IF lastApply.op = "snapshot"
        THEN ApplySnapshot(lastApply.prior, lastApply.bids, lastApply.asks, lastApply.u)
        ELSE ApplyDelta(lastApply.prior, lastApply.bids, lastApply.asks, lastApply.u)

\* C33, what the callback does: a snapshot replaces the book of the key and
\* any other message leaves the book as it was
C33_OnlySnapshotsApplied ==
  lastApply # NoApply =>
    books[lastApply.key] =
      IF lastApply.op = "snapshot"
        THEN ApplySnapshot(lastApply.prior, lastApply.bids, lastApply.asks, lastApply.u)
        ELSE lastApply.prior

\* C34: a top-of-book read that runs while the callback applies a message to
\* the same book returns the top of the book as it was before the message or
\* the top of the book after the message and its trim.
C34_ReadSeesBeforeOrAfter ==
  seen.read => seen.top \in {BestBidAsk(seen.prior), BestBidAsk(seen.after)}

\* C35: one linear-perpetual order placement issues at most two placement
\* requests, and when the retry is answered with ErrCode 170207 again the
\* placement returns failure.
C35_BorrowRetryBoundedToOne ==
  placement.kind = "perp" =>
    /\ placement.requests <= 2
    /\ (/\ Len(placement.answers) >= 2
        /\ placement.answers[1].code = "170207"
        /\ placement.answers[2].code = "170207"
        /\ placement.pc = "returned") => ~placement.success

\* C35, the part the code keeps: a perpetual placement asks again only after
\* an answer carrying ErrCode 170207, and never asks after any other answer
C35_RetryOnlyAfterBorrowError ==
  placement.kind = "perp" =>
    \A i \in 1..(Len(placement.answers) - 1) : placement.answers[i].code = "170207"

\* the codes for which a spot placement is tried again
SpotRetryCodes == {"170037", "170344"}

\* C36: in a spot order placement, when the retry that follows ErrCode 170037
\* or ErrCode 170344 is answered with the same error again, no further
\* placement request is issued and the placement returns failure.
C36_SameErrorOnRetryFails ==
  placement.kind = "spot" =>
    \A i \in 1..(Len(placement.answers) - 1) :
      (/\ placement.answers[i].code \in SpotRetryCodes
       /\ placement.answers[i + 1].code = placement.answers[i].code)
        => /\ Len(placement.answers) = i + 1
           /\ placement.pc = "returned" => ~placement.success

\* C36, the part the code keeps: every remediation call follows an answer
\* carrying ErrCode 170037, a retry after ErrCode 170344 is the non-leveraged
\* variant, and a spot placement asks again only after one of the two codes
C36_RetriesFollowTheirErrors ==
  placement.kind = "spot" =>
    /\ placement.fixes <= Cardinality({i \in 1..Len(placement.answers) :
                                         placement.answers[i].code = "170037"})
    /\ \A i \in 1..(Len(placement.answers) - 1) :
         placement.answers[i].code \in SpotRetryCodes
    /\ (/\ placement.answers # <<>>
        /\ placement.answers[Len(placement.answers)].code = "170344"
        /\ placement.pc = "place") => placement.isLeverage = 0

\* the records of the successful orders of one leg of a plan, rollbacks left out
LegSuccesses(pid, l) ==
  {i \in 1..Len(executions[pid]) :
     /\ executions[pid][i].success
     /\ ~executions[pid][i].is_rollback
     /\ executions[pid][i].legIndex = l}

\* C37: over the life of a plan, pause/resume cycles included, the number of
\* successful non-rollback orders of each leg never exceeds slicesTotal.
C37_NoLegTradedBeyondTotal ==
  \A pid \in DOMAIN plans :
    \A l \in 0..(Len(plans[pid].legs) - 1) :
      Cardinality(LegSuccesses(pid, l)) <= progress[pid].slicesTotal

\* C37, the part the code keeps: one execution task places at most one
\* successful order per leg and slice, so a plan that was never resumed stays
\* within slicesTotal orders per leg
C37_WithinTotalUntilResumed ==
  \A pid \in DOMAIN plans :
    Cardinality({t \in DOMAIN tasks : tasks[t].plan = pid}) <= 1 =>
      \A l \in 0..(Len(plans[pid].legs) - 1) :
        Cardinality(LegSuccesses(pid, l)) <= progress[pid].slicesTotal

\* C38: for every plan, executed + remaining = totalQty with
\* 0 <= executed <= totalQty and remaining >= 0, and 0 <= slicesDone <= slicesTotal.
C38_ProgressWithinBounds ==
  \A pid \in DOMAIN plans :
    /\ progress[pid].executed + progress[pid].remaining = plans[pid].totalQty
    /\ 0 <= progress[pid].executed
    /\ progress[pid].executed <= plans[pid].totalQty
    /\ progress[pid].remaining >= 0
    /\ 0 <= progress[pid].slicesDone
    /\ progress[pid].slicesDone <= progress[pid].slicesTotal

\* C38, the part the code keeps: the sum is constant and the counters that
\* only grow stay non-negative and within the number of slices
C38_SumAndSliceCountHold ==
  \A pid \in DOMAIN plans :
    /\ progress[pid].executed + progress[pid].remaining = plans[pid].totalQty
    /\ 0 <= progress[pid].executed
    /\ 0 <= progress[pid].slicesDone
    /\ progress[pid].slicesDone <= progress[pid].slicesTotal

\* C39: whenever a plan is RUNNING, the task registry holds the live task of
\* the plan: every task of the plan that can still place an order is the one
\* registered under the plan id.
C39_RegistryHoldsLiveTask ==
  \A pid \in DOMAIN plans :
    progress[pid].state = "running" =>
      \A t \in LiveTasks(pid) :
        pid \in DOMAIN running_tasks /\ running_tasks[pid] = t

\* C39, the part the code keeps: a registration always names a task of the
\* plan it is registered under
C39_RegistrationNamesOwnPlan ==
  \A pid \in DOMAIN running_tasks :
    running_tasks[pid] \in DOMAIN tasks /\ tasks[running_tasks[pid]].plan = pid

\* the successful rollback records that name the order of record i
Compensations(pid, i) ==
  {j \in 1..Len(executions[pid]) :
     /\ executions[pid][j].is_rollback
     /\ executions[pid][j].success
     /\ executions[pid][j].original_order_id = executions[pid][i].orderId}

\* C40: with emergencyRollback called once on a plan, no successful leg order
\* is compensated twice: each successful non-rollback execution has at most
\* one successful rollback record.
C40_NoDoubleCompensation ==
  \A pid \in DOMAIN executions :
    \A i \in 1..Len(executions[pid]) :
      (executions[pid][i].success /\ ~executions[pid][i].is_rollback)
        => Cardinality(Compensations(pid, i)) <= 1

\* C40, the part the code keeps: one emergency rollback places at most one
\* reverse order per successful order, and the automatic rollback of a slice
\* does the same
C40_OnePerRollbackRun ==
  \A pid \in DOMAIN executions :
    \A i \in 1..Len(executions[pid]) :
      \A j1, j2 \in Compensations(pid, i) :
        executions[pid][j1].sliceIndex = executions[pid][j2].sliceIndex => j1 = j2

====
